---- MODULE Spec2Model ----
(***************************************************************************)
(* Sheepify backend: the sleep-to-reward economy.                          *)
(*                                                                         *)
(* The database is the record db with one field per table.  The service    *)
(* functions of backend/app/services are operators from a database to a    *)
(* database and an outcome, split at the points where the code queries and *)
(* where it commits.  Spec runs every request to completion before the     *)
(* next one starts; SpecConc runs the requests of two workers interleaved  *)
(* at those query and commit points.                                       *)
(*                                                                         *)
(* Units.  A datetime is a number of minutes since day 0, 00:00.           *)
(* duration_hours is held in minutes (the float d is the rational m/60).   *)
(* quality_score is held in half points (the float q is the rational h/2), *)
(* a consistency ratio in quarters.  Ids are row positions in the table.   *)
(* The clock now stands at Now0 through a run; the nights of a history     *)
(* are dated before it, inside and outside the window of seven days.       *)
(***************************************************************************)
EXTENDS Integers, Sequences, FiniteSets, TLC

VARIABLES db, now, served, result, req

vars == <<db, now, served, result, req>>

----------------------------------------------------------------------------
(* Bounds of the model *)

\* the number of requests served in a run of Spec, and in a run of SpecConc
MaxRequests == 4
MaxConcRequests == 3

\* the number of nights in the history of an account
MaxHistory == 3

\* the sheep created before the generation rate is asked for
MaxFlock == 2

(* Program constants *)

WoolPerHour == 50
MaxDurationHours == 16
MinDurationHours == 1
RewardQuality == 50
SheepQuality == 70
HighQuality == 85
WindowDays == 7

----------------------------------------------------------------------------
(* Inputs *)

Users == {"u1", "u2"}
Workers == {1, 2}

Day(d, h, m) == d * 1440 + h * 60 + m

Now0 == Day(9, 8, 0)

StartTimes == {Day(8, 22, 0), Day(8, 10, 0)}

\* end_time - start_time, in minutes: before the start, under an hour,
\* two hours, nine hours, twenty hours
Durations == {-60, 30, 120, 540, 1200}

PurchaseAmounts == {-1, 3, 5, 6}

\* the inputs of the interleaved requests
ConcStartTimes == {Day(8, 22, 0)}
ConcDurations == {30, 540}
ConcAmounts == {3}

----------------------------------------------------------------------------
(* Nullable columns *)

None == <<>>
Some(v) == <<v>>
Get(o) == o[1]

----------------------------------------------------------------------------
(* Rows *)

SleepSession(user_id, start_time) ==
    [user_id |-> user_id, start_time |-> start_time, end_time |-> None,
     duration_hours |-> None, quality_score |-> None, reward_wool |-> 0,
     new_sheep_awarded |-> None, status |-> "active"]

WoolTransaction(user_id, amount, balance_after, source) ==
    [user_id |-> user_id, amount |-> amount, balance_after |-> balance_after,
     source |-> source]

Sheep(user_id, sheep_type_id) ==
    [user_id |-> user_id, sheep_type_id |-> sheep_type_id, level |-> 1,
     experience |-> 0, wool_rate_modifier |-> 1, is_favorite |-> FALSE]

\* register: the user row with wool_balance 0, then the starter sheep
RegisteredDb ==
    [sleep_sessions |-> <<>>,
     wool_balance |-> [u \in Users |-> 0],
     wool_transactions |-> <<>>,
     sheep |-> <<Sheep("u1", "starter"), Sheep("u2", "starter")>>]

----------------------------------------------------------------------------
(* Outcomes *)

Ok(d, r) == [db |-> d, exc |-> "", msg |-> "", ret |-> r]
Raise(d, e, m) == [db |-> d, exc |-> e, msg |-> m, ret |-> None]

----------------------------------------------------------------------------
(* models/sheep.py *)

SHEEP_TYPES(sheep_type_id) ==
    CASE sheep_type_id = "starter" -> 5
      [] sheep_type_id = "merino" -> 10
      [] sheep_type_id = "suffolk" -> 15
      [] sheep_type_id = "cotswold" -> 20
      [] sheep_type_id = "golden" -> 50
      [] OTHER -> 5

current_wool_rate(sh) ==
    (SHEEP_TYPES(sh.sheep_type_id) + (sh.level - 1) * 2) * sh.wool_rate_modifier

----------------------------------------------------------------------------
(* services/wool_service.py *)

RECURSIVE SumRates(_, _, _)
SumRates(rows, user_id, i) ==
    IF i > Len(rows) THEN 0
    ELSE (IF rows[i].user_id = user_id THEN current_wool_rate(rows[i]) ELSE 0)
         + SumRates(rows, user_id, i + 1)

\* a generation rate summed over the sheep of every user
get_generation_rate_all_users(d, user_id) ==
    SumRates(d.sheep, user_id, 1)
    + SumRates(d.sheep, CHOOSE u \in Users : u # user_id, 1)

get_generation_rate(d, user_id) == SumRates(d.sheep, user_id, 1)

\* add_wool that appends the transaction and leaves user.wool_balance as it was
add_wool_commit_no_balance(d, user_id, read_balance, amount, source) ==
    [d EXCEPT !.wool_transactions =
        Append(@, WoolTransaction(user_id, amount, read_balance + amount, source))]

\* add_wool from the balance it read: the UPDATE of the user row, the INSERT
\* of the transaction and the commit
add_wool_commit(d, user_id, read_balance, amount, source) ==
    LET new_balance == read_balance + amount
    IN  [d EXCEPT !.wool_balance[user_id] = new_balance,
                  !.wool_transactions =
                      Append(@, WoolTransaction(user_id, amount, new_balance, source))]

\* add_wool that returns the balance it read
add_wool_returns_read(d, user_id, amount, source) ==
    IF user_id \notin DOMAIN d.wool_balance
    THEN Raise(d, "ValueError", "User not found")
    ELSE LET read_balance == d.wool_balance[user_id]
         IN  Ok(add_wool_commit(d, user_id, read_balance, amount, source),
                Some(read_balance))

add_wool(d, user_id, amount, source) ==
    IF user_id \notin DOMAIN d.wool_balance
    THEN Raise(d, "ValueError", "User not found")
    ELSE LET read_balance == d.wool_balance[user_id]
         IN  Ok(add_wool_commit(d, user_id, read_balance, amount, source),
                Some(read_balance + amount))

\* a sufficiency check that only refuses an empty balance
InsufficientWool_empty_only(read_balance, amount) == read_balance <= 0

\* the sufficiency check of spend_wool on the balance it read
InsufficientWool(read_balance, amount) == read_balance < amount

\* spend_wool that writes the balance and no transaction
spend_wool_commit_no_entry(d, user_id, read_balance, amount, purpose) ==
    [d EXCEPT !.wool_balance[user_id] = read_balance - amount]

spend_wool_commit(d, user_id, read_balance, amount, purpose) ==
    LET new_balance == read_balance - amount
    IN  [d EXCEPT !.wool_balance[user_id] = new_balance,
                  !.wool_transactions =
                      Append(@, WoolTransaction(user_id, -amount, new_balance, purpose))]

spend_wool(d, user_id, amount, purpose) ==
    IF user_id \notin DOMAIN d.wool_balance
    THEN Raise(d, "ValueError", "User not found")
    ELSE LET read_balance == d.wool_balance[user_id]
         IN  IF InsufficientWool(read_balance, amount)
             THEN Raise(d, "InsufficientWoolError", "Insufficient wool")
             ELSE Ok(spend_wool_commit(d, user_id, read_balance, amount, purpose),
                     Some(TRUE))

----------------------------------------------------------------------------
(* api/v1/wool.py *)

collect_wool(d, user_id) ==
    LET hourly_rate == get_generation_rate(d, user_id)
    IN  IF hourly_rate <= 0
        THEN Raise(d, "HTTPException", "No sheep to generate wool")
        ELSE add_wool(d, user_id, hourly_rate, "manual_collection")

purchase_with_wool(d, user_id, amount) ==
    spend_wool(d, user_id, amount, "shop_purchase")

----------------------------------------------------------------------------
(* services/sheep_service.py *)

\* create_sheep that creates a starter, as award_starter_sheep does
create_sheep_starter(d, user_id, sheep_type_id) ==
    [d EXCEPT !.sheep = Append(@, Sheep(user_id, "starter"))]

create_sheep(d, user_id, sheep_type_id) ==
    [d EXCEPT !.sheep = Append(@, Sheep(user_id, sheep_type_id))]

\* determine_sheep_reward with the chance of a sheep from the quality at
\* which calculate_reward asks for one
SheepReward_from_70(sleep_quality, roll) ==
    IF sleep_quality >= 2 * SheepQuality /\ roll
    THEN IF sleep_quality >= 2 * 95 THEN Some("golden")
         ELSE IF sleep_quality >= 2 * 90 THEN Some("cotswold")
         ELSE IF sleep_quality >= 2 * 85 THEN Some("suffolk")
         ELSE Some("merino")
    ELSE None

\* a query of update_sheep that filters on the id alone
FindSheep_any_user(d, sheep_id, user_id) ==
    {k \in DOMAIN d.sheep : k = sheep_id}

\* the query of update_sheep: the sheep with that id and that user
FindSheep(d, sheep_id, user_id) ==
    {k \in DOMAIN d.sheep : k = sheep_id /\ d.sheep[k].user_id = user_id}

\* an UPDATE that clears the other sheep of every user
unfavorite_others_all_users(d, sheep_id, user_id) ==
    [d EXCEPT !.sheep =
        [k \in DOMAIN @ |->
            IF k # sheep_id THEN [@[k] EXCEPT !.is_favorite = FALSE] ELSE @[k]]]

\* an UPDATE that clears no sheep
unfavorite_others_none(d, sheep_id, user_id) == d

\* the UPDATE of update_sheep: is_favorite False on the other sheep of the
\* user
unfavorite_others(d, sheep_id, user_id) ==
    [d EXCEPT !.sheep =
        [k \in DOMAIN @ |->
            IF @[k].user_id = user_id /\ k # sheep_id
            THEN [@[k] EXCEPT !.is_favorite = FALSE]
            ELSE @[k]]]

\* the flush and the commit of update_sheep: the UPDATE of the sheep, when
\* is_favorite is given and is not the value the query read (the ORM writes
\* the attributes that changed)
update_sheep_commit(d, sheep_id, read_favorite, is_favorite) ==
    IF is_favorite # None /\ Get(is_favorite) # read_favorite
    THEN [d EXCEPT !.sheep[sheep_id].is_favorite = Get(is_favorite)]
    ELSE d

\* update_sheep that leaves the other sheep of the user as they are
update_sheep_no_clear(d, sheep_id, user_id, is_favorite) ==
    IF FindSheep(d, sheep_id, user_id) = {}
    THEN Raise(d, "ValueError", "Sheep not found")
    ELSE LET committed == update_sheep_commit(d, sheep_id,
                              d.sheep[sheep_id].is_favorite, is_favorite)
         IN  Ok(committed, Some(committed.sheep[sheep_id]))

\* update_sheep, for is_favorite None, Some(TRUE) or Some(FALSE); it returns
\* the sheep
update_sheep(d, sheep_id, user_id, is_favorite) ==
    IF FindSheep(d, sheep_id, user_id) = {}
    THEN Raise(d, "ValueError", "Sheep not found")
    ELSE LET cleared == IF is_favorite = Some(TRUE)
                        THEN unfavorite_others(d, sheep_id, user_id)
                        ELSE d
             committed == update_sheep_commit(cleared, sheep_id,
                              d.sheep[sheep_id].is_favorite, is_favorite)
         IN  Ok(committed, Some(committed.sheep[sheep_id]))

\* api/v1/sheep.py, PATCH /{sheep_id}: a ValueError becomes the response 404
update_sheep_route(d, sheep_id, user_id, is_favorite) ==
    LET out == update_sheep(d, sheep_id, user_id, is_favorite)
    IN  IF out.exc = "ValueError" THEN Raise(d, "HTTPException", out.msg)
        ELSE out

\* the sheep type determine_sheep_reward awards for a quality (in half
\* points) and a roll (random.random() < 0.1), or None
SheepReward(sleep_quality, roll) ==
    IF sleep_quality >= 2 * HighQuality /\ roll
    THEN IF sleep_quality >= 2 * 95 THEN Some("golden")
         ELSE IF sleep_quality >= 2 * 90 THEN Some("cotswold")
         ELSE IF sleep_quality >= 2 * 85 THEN Some("suffolk")
         ELSE Some("merino")
    ELSE None

----------------------------------------------------------------------------
(* services/sleep_service.py: scoring *)

HourOf(t) == (t \div 60) % 24
MinuteOf(t) == t % 60

\* a query of calculate_consistency_score that leaves out a session started
\* exactly seven days ago
RecentSessions_after(d, user_id, utcnow) ==
    LET seven_days_ago == utcnow - WindowDays * 1440
    IN  SelectSeq(d.sleep_sessions,
                  LAMBDA s : /\ s.user_id = user_id
                             /\ s.start_time > seven_days_ago
                             /\ s.status = "completed")

\* the rows of the query of calculate_consistency_score and get_weekly_stats
RecentSessions(d, user_id, utcnow) ==
    LET seven_days_ago == utcnow - WindowDays * 1440
    IN  SelectSeq(d.sleep_sessions,
                  LAMBDA s : /\ s.user_id = user_id
                             /\ s.start_time >= seven_days_ago
                             /\ s.status = "completed")

\* s.start_time.hour + s.start_time.minute / 60, in minutes
StartMinutes(s) == HourOf(s.start_time) * 60 + MinuteOf(s.start_time)

RECURSIVE SumStart(_, _)
SumStart(rows, i) ==
    IF i > Len(rows) THEN 0 ELSE StartMinutes(rows[i]) + SumStart(rows, i + 1)

RECURSIVE SumStartSq(_, _)
SumStartSq(rows, i) ==
    IF i > Len(rows) THEN 0
    ELSE StartMinutes(rows[i]) * StartMinutes(rows[i]) + SumStartSq(rows, i + 1)

\* how many of the rows start at each minute of the day
StartBag(rows) ==
    [m \in {StartMinutes(rows[i]) : i \in DOMAIN rows} |->
        Cardinality({i \in DOMAIN rows : StartMinutes(rows[i]) = m})]

\* The start hours are floats: minute / 60 is rounded, and statistics.stdev
\* rounds the square root of the exact variance of the rounded hours.  For
\* the start times of the model the result is on the same side of 0.5, 1.0
\* and 2.0 as the exact standard deviation, but for these rows, where the
\* exact standard deviation of the start times is 0.5 hours and
\* statistics.stdev returns 0.49999999999999994 (the minutes 1, 31 and 61
\* are 00:01, 00:31 and 01:01).
RoundedDownStdev ==
    {(1 :> 1 @@ 31 :> 1 @@ 61 :> 1),
     (1 :> 3 @@ 61 :> 1),
     (1 :> 1 @@ 61 :> 3),
     (1 :> 2 @@ 31 :> 1 @@ 61 :> 2)}

\* statistics.stdev(start_hours) < limit hours, for n >= 2 rows:
\* stdev^2 = (n * sum(m^2) - sum(m)^2) / (n * (n - 1) * 3600)
StdevBelow(rows, limit_halves) ==
    LET n == Len(rows)
        dev == n * SumStartSq(rows, 1) - SumStart(rows, 1) * SumStart(rows, 1)
    IN  \/ 4 * dev < limit_halves * limit_halves * 3600 * n * (n - 1)
        \/ limit_halves = 1 /\ StartBag(rows) \in RoundedDownStdev

\* calculate_consistency_score that takes too little data for full marks
calculate_consistency_score_full(d, user_id, utcnow) ==
    LET recent_sessions == RecentSessions(d, user_id, utcnow)
    IN  IF Len(recent_sessions) < 3 THEN 4
        ELSE IF StdevBelow(recent_sessions, 1) THEN 4
        ELSE IF StdevBelow(recent_sessions, 2) THEN 3
        ELSE IF StdevBelow(recent_sessions, 4) THEN 2
        ELSE 1

\* the consistency ratio, in quarters
calculate_consistency_score(d, user_id, utcnow) ==
    LET recent_sessions == RecentSessions(d, user_id, utcnow)
    IN  IF Len(recent_sessions) < 3 THEN 2
        ELSE IF StdevBelow(recent_sessions, 1) THEN 4
        ELSE IF StdevBelow(recent_sessions, 2) THEN 3
        ELSE IF StdevBelow(recent_sessions, 4) THEN 2
        ELSE 1

\* a duration component whose best band ends before 10 hours
DurationScore_below_10(duration) ==
    IF 8 * 60 <= duration /\ duration < 10 * 60 THEN 40
    ELSE IF 7 * 60 <= duration /\ duration < 8 * 60 THEN 30
    ELSE IF 6 * 60 <= duration /\ duration < 7 * 60 THEN 20
    ELSE IF duration >= 10 * 60 THEN 25
    ELSE 10

\* a duration component with 50 points for the best band
DurationScore_bonus(duration) ==
    IF 8 * 60 <= duration /\ duration <= 10 * 60 THEN 50
    ELSE IF 7 * 60 <= duration /\ duration < 8 * 60 THEN 30
    ELSE IF 6 * 60 <= duration /\ duration < 7 * 60 THEN 20
    ELSE IF duration > 10 * 60 THEN 25
    ELSE 10

\* duration in minutes
DurationScore(duration) ==
    IF 8 * 60 <= duration /\ duration <= 10 * 60 THEN 40
    ELSE IF 7 * 60 <= duration /\ duration < 8 * 60 THEN 30
    ELSE IF 6 * 60 <= duration /\ duration < 7 * 60 THEN 20
    ELSE IF duration > 10 * 60 THEN 25
    ELSE 10

\* a timing component that takes midnight for a late hour
TimingScore_midnight_late(hour_of_day) ==
    IF 21 <= hour_of_day /\ hour_of_day <= 23 THEN 30
    ELSE IF 20 <= hour_of_day /\ hour_of_day < 21 THEN 25
    ELSE IF 0 <= hour_of_day /\ hour_of_day <= 3 THEN 15
    ELSE 10

TimingScore(hour_of_day) ==
    IF 21 <= hour_of_day /\ hour_of_day <= 23 THEN 30
    ELSE IF (20 <= hour_of_day /\ hour_of_day < 21) \/ hour_of_day = 0 THEN 25
    ELSE IF 1 <= hour_of_day /\ hour_of_day <= 3 THEN 15
    ELSE 10

Min(a, b) == IF a < b THEN a ELSE b

\* the quality score, in half points: consistency_score * 30 is 15 half
\* points a quarter
calculate_quality_score(d, duration, start_time, user_id, utcnow) ==
    LET base_score == 2 * DurationScore(duration)
                      + 2 * TimingScore(HourOf(start_time))
                      + 15 * calculate_consistency_score(d, user_id, utcnow)
    IN  Min(base_score, 2 * 100)

\* The reward is computed in binary floating point.  For a duration of whole
\* minutes from 1 to 16 hours and a quality of half points from 50 to 100 the
\* result is the exact one, or one less where the exact product is a whole
\* number and the rounded product falls just below it.

\* the durations, in minutes, where int(duration_hours * 50) is one less than
\* the exact floor
RoundedDownBase == {138, 246, 276, 306, 492, 522, 552, 582, 612}

\* the values of base_wool where int(base_wool * (quality_score / 100)) is
\* one less than the exact floor, for a quality in half points
RoundedDownReward(quality_score) ==
    CASE quality_score = 113 -> {200, 400, 600, 800}
      [] quality_score = 114 -> {100, 200, 300, 400, 600, 700, 800}
      [] quality_score = 115 -> {200, 360, 400, 440, 680, 720, 760, 800}
      [] quality_score = 116 -> {50, 100, 200, 400, 750, 800}
      [] quality_score = 138 -> {300, 600, 700}
      [] quality_score = 139 -> {600}
      [] quality_score = 140 -> {90, 170, 180, 330, 340, 350, 360, 650, 660, 670, 680, 690, 700, 710, 720, 730}
      [] quality_score = 163 -> {600}
      [] quality_score = 164 -> {150, 300, 600}
      [] OTHER -> {}

\* int(duration_hours * 50), for a duration in minutes
BaseWool(duration) ==
    (duration * WoolPerHour) \div 60
        - (IF duration \in RoundedDownBase THEN 1 ELSE 0)

\* int(int(duration_hours * 50) * (quality_score / 100)), for a duration in
\* minutes and a quality in half points
WoolReward(duration, quality_score) ==
    LET base_wool == BaseWool(duration)
    IN  (base_wool * quality_score) \div (2 * 100)
            - (IF base_wool \in RoundedDownReward(quality_score) THEN 1 ELSE 0)

----------------------------------------------------------------------------
(* services/sleep_service.py: the session lifecycle *)

\* the query of start_session: the ids of the user's active sessions
ActiveSessions(d, user_id) ==
    {i \in DOMAIN d.sleep_sessions :
        /\ d.sleep_sessions[i].user_id = user_id
        /\ d.sleep_sessions[i].status = "active"}

\* db.add(session); db.commit()
start_session_commit(d, user_id, start_time) ==
    [d EXCEPT !.sleep_sessions = Append(@, SleepSession(user_id, start_time))]

\* start_session without the check for an active session
start_session_no_check(d, user_id, start_time) ==
    Ok(start_session_commit(d, user_id, start_time),
       Some(Len(d.sleep_sessions) + 1))

start_session(d, user_id, start_time) ==
    IF ActiveSessions(d, user_id) # {}
    THEN Raise(d, "ValidationError", "User already has an active sleep session")
    ELSE Ok(start_session_commit(d, user_id, start_time),
            Some(Len(d.sleep_sessions) + 1))

\* a query of complete_session that filters on the id alone
FindSession_any_user(d, session_id, user_id) ==
    {i \in DOMAIN d.sleep_sessions : i = session_id}

\* the query of complete_session: the session with that id and that user
FindSession(d, session_id, user_id) ==
    {i \in DOMAIN d.sleep_sessions :
        i = session_id /\ d.sleep_sessions[i].user_id = user_id}

\* a cap at 24 hours
CapDuration_day(duration) ==
    IF duration > 24 * 60 THEN 24 * 60 ELSE duration

\* no anti-cheat cap
CapDuration_none(duration) == duration

\* the duration after the anti-cheat cap, in minutes
CapDuration(duration) ==
    IF duration > MaxDurationHours * 60 THEN MaxDurationHours * 60 ELSE duration

TooShort(duration) ==
    ~(duration > MaxDurationHours * 60) /\ duration < MinDurationHours * 60

\* a too-short branch that records the end and leaves the session active
complete_short_commit_active(d, session_id, end_time, duration) ==
    [d EXCEPT !.sleep_sessions[session_id] =
        [@ EXCEPT !.end_time = Some(end_time),
                  !.duration_hours = Some(duration)]]

\* the commit of the too-short branch
complete_short_commit(d, session_id, end_time, duration) ==
    [d EXCEPT !.sleep_sessions[session_id] =
        [@ EXCEPT !.status = "completed",
                  !.end_time = Some(end_time),
                  !.duration_hours = Some(duration)]]

\* SheepService.determine_sheep_reward: the sheep is created and committed
determine_sheep_reward(d, user_id, sleep_quality, roll) ==
    LET sheep_type == SheepReward(sleep_quality, roll)
    IN  IF sheep_type = None THEN Ok(d, None)
        ELSE Ok(create_sheep(d, user_id, Get(sheep_type)), Some(Len(d.sheep) + 1))

\* calculate_reward that computes the wool and does not add it
calculate_reward_no_credit(d, user_id, duration, quality_score, roll) ==
    LET wool_reward == WoolReward(duration, quality_score)
        sheep_out == IF quality_score >= 2 * SheepQuality
                     THEN determine_sheep_reward(d, user_id, quality_score, roll)
                     ELSE Ok(d, None)
    IN  Ok(sheep_out.db, Some([wool |-> wool_reward, new_sheep |-> sheep_out.ret]))

calculate_reward(d, user_id, duration, quality_score, roll) ==
    LET wool_reward == WoolReward(duration, quality_score)
        added == add_wool(d, user_id, wool_reward, "sleep_reward")
        sheep_out == IF quality_score >= 2 * SheepQuality
                     THEN determine_sheep_reward(added.db, user_id, quality_score, roll)
                     ELSE Ok(added.db, None)
    IN  IF added.exc # "" THEN added
        ELSE Ok(sheep_out.db, Some([wool |-> wool_reward, new_sheep |-> sheep_out.ret]))

\* a last commit that does not record the sheep on the session
complete_commit_no_award(d, session_id, end_time, duration, quality_score, reward) ==
    [d EXCEPT !.sleep_sessions[session_id] =
        [@ EXCEPT !.end_time = Some(end_time),
                  !.duration_hours = Some(duration),
                  !.quality_score = Some(quality_score),
                  !.reward_wool = IF reward # None THEN Get(reward).wool ELSE 0,
                  !.status = "completed"]]

\* the last commit of complete_session; reward is None or Some([wool, new_sheep])
complete_commit(d, session_id, end_time, duration, quality_score, reward) ==
    [d EXCEPT !.sleep_sessions[session_id] =
        [@ EXCEPT !.end_time = Some(end_time),
                  !.duration_hours = Some(duration),
                  !.quality_score = Some(quality_score),
                  !.reward_wool = IF reward # None THEN Get(reward).wool ELSE 0,
                  !.status = "completed",
                  !.new_sheep_awarded =
                      IF reward # None /\ Get(reward).new_sheep # None
                      THEN Get(reward).new_sheep ELSE @]]

\* complete_session without the check of the status
CompleteRefusal_no_status(d, session_id, user_id) ==
    IF FindSession(d, session_id, user_id) = {} THEN "Session not found" ELSE ""

\* the session may be completed: empty, or the message of the error raised
CompleteRefusal(d, session_id, user_id) ==
    IF FindSession(d, session_id, user_id) = {} THEN "Session not found"
    ELSE IF d.sleep_sessions[session_id].status # "active" THEN "Session is not active"
    ELSE ""

complete_session(d, session_id, user_id, end_time, roll, utcnow) ==
    LET refusal == CompleteRefusal(d, session_id, user_id)
        session == d.sleep_sessions[session_id]
        raw == end_time - session.start_time
        duration_hours == CapDuration(raw)
        quality_score == calculate_quality_score(d, duration_hours,
                                                 session.start_time, user_id, utcnow)
        rewarded == IF quality_score >= 2 * RewardQuality
                    THEN calculate_reward(d, user_id, duration_hours, quality_score, roll)
                    ELSE Ok(d, None)
    IN  IF refusal # "" THEN Raise(d, "ValidationError", refusal)
        ELSE IF TooShort(raw)
        THEN Ok(complete_short_commit(d, session_id, end_time, duration_hours),
                Some([message |-> "Sleep session too short", quality_score |-> 0,
                      reward |-> None]))
        ELSE IF rewarded.exc # "" THEN rewarded
        ELSE Ok(complete_commit(rewarded.db, session_id, end_time, duration_hours,
                                quality_score, rewarded.ret),
                Some([message |-> "", quality_score |-> quality_score,
                      reward |-> rewarded.ret]))

----------------------------------------------------------------------------
(* services/sleep_service.py: get_weekly_stats *)

\* Python's round(x, 2) of the fraction num / den, in hundredths: to the
\* nearest, a tie to the even one
RoundHundredths(num, den) ==
    LET q == (100 * num) \div den
        r == (100 * num) % den
    IN  IF 2 * r < den THEN q
        ELSE IF 2 * r > den THEN q + 1
        ELSE IF q % 2 = 0 THEN q ELSE q + 1

RECURSIVE SumHours(_, _)
\* sum(s.duration_hours for s in sessions if s.duration_hours), in minutes
SumHours(rows, i) ==
    IF i > Len(rows) THEN 0
    ELSE (IF rows[i].duration_hours # None /\ Get(rows[i].duration_hours) # 0
          THEN Get(rows[i].duration_hours) ELSE 0)
         + SumHours(rows, i + 1)

RECURSIVE SumQuality(_, _)
\* the sum of the quality scores of the rows, in half points
SumQuality(rows, i) ==
    IF i > Len(rows) THEN 0
    ELSE Get(rows[i].quality_score) + SumQuality(rows, i + 1)

RECURSIVE SumWool(_, _)
\* sum(s.reward_wool for s in sessions)
SumWool(rows, i) ==
    IF i > Len(rows) THEN 0 ELSE rows[i].reward_wool + SumWool(rows, i + 1)

\* s.quality_score or 0
QualityOrZero(s) == IF s.quality_score = None THEN 0 ELSE Get(s.quality_score)

\* max(sessions, key=lambda s: s.quality_score or 0): the first of the rows
\* with the greatest key
BestSession(rows) ==
    LET best == {i \in DOMAIN rows :
                    \A j \in DOMAIN rows : QualityOrZero(rows[j]) <= QualityOrZero(rows[i])}
    IN  rows[CHOOSE i \in best : \A j \in best : i <= j]

\* [s.quality_score for s in sessions if s.quality_score]: the rows whose
\* quality_score is neither NULL nor 0
WithQuality(sessions) ==
    SelectSeq(sessions, LAMBDA s : s.quality_score # None /\ Get(s.quality_score) # 0)

\* total_hours and average_quality are in hundredths (round(x, 2)); the
\* mean of no score raises statistics.StatisticsError
get_weekly_stats(d, user_id, utcnow) ==
    LET sessions == RecentSessions(d, user_id, utcnow)
        with_quality == WithQuality(sessions)
    IN  IF sessions = <<>>
        THEN Ok(d, Some([total_sessions |-> 0, total_hours |-> 0,
                         average_quality |-> 0, total_wool_earned |-> 0,
                         best_session_date |-> None]))
        ELSE IF with_quality = <<>>
        THEN Raise(d, "StatisticsError", "mean requires at least one data point")
        ELSE Ok(d, Some([total_sessions |-> Len(sessions),
                         total_hours |-> RoundHundredths(SumHours(sessions, 1), 60),
                         average_quality |->
                             RoundHundredths(SumQuality(with_quality, 1),
                                             2 * Len(with_quality)),
                         total_wool_earned |-> SumWool(sessions, 1),
                         best_session_date |->
                             Some(BestSession(sessions).start_time)]))

----------------------------------------------------------------------------
(* The requests, each run to completion *)

\* a worker with no request: the program counter and the locals of a request
Idle ==
    [pc |-> "idle", op |-> "", user_id |-> "", session_id |-> 0,
     start_time |-> 0, time |-> 0, amount |-> 0, roll |-> FALSE,
     read_balance |-> 0, duration |-> 0, quality |-> 0, reward |-> None,
     sheep_id |-> 0, is_favorite |-> None, read_favorite |-> FALSE]

NoResult ==
    [op |-> "", user_id |-> "", session_id |-> 0, time |-> 0, amount |-> 0,
     exc |-> "", msg |-> "", ret |-> None]

Result(op, user_id, session_id, time, amount, out) ==
    [op |-> op, user_id |-> user_id, session_id |-> session_id, time |-> time,
     amount |-> amount, exc |-> out.exc, msg |-> out.msg, ret |-> out.ret]

\* the session ids a client may send: those of the table and one of no session
SessionIds == 1..(Len(db.sleep_sessions) + 1)

EndTime(sid, dur) ==
    IF sid \in DOMAIN db.sleep_sessions
    THEN db.sleep_sessions[sid].start_time + dur
    ELSE Now0

Init ==
    /\ db = RegisteredDb
    /\ now = Now0
    /\ served = 0
    /\ result = NoResult
    /\ req = [w \in Workers |-> Idle]

Serve ==
    /\ served < MaxRequests
    /\ served' = served + 1
    /\ UNCHANGED <<now, req>>

StartSession(u, t) ==
    LET out == start_session(db, u, t)
    IN  /\ Serve
        /\ db' = out.db
        /\ result' = Result("start", u, 0, t, 0, out)

CompleteSession(sid, u, dur, roll) ==
    LET out == complete_session(db, sid, u, EndTime(sid, dur), roll, now)
    IN  /\ Serve
        /\ db' = out.db
        /\ result' = Result("complete", u, sid, EndTime(sid, dur), 0, out)

CollectWool(u) ==
    LET out == collect_wool(db, u)
    IN  /\ Serve
        /\ db' = out.db
        /\ result' = Result("collect", u, 0, 0, 0, out)

Purchase(u, amount) ==
    LET out == purchase_with_wool(db, u, amount)
    IN  /\ Serve
        /\ db' = out.db
        /\ result' = Result("purchase", u, 0, 0, amount, out)

Next ==
    \/ \E u \in Users, t \in StartTimes : StartSession(u, t)
    \/ \E sid \in SessionIds, u \in Users, dur \in Durations, roll \in BOOLEAN :
          CompleteSession(sid, u, dur, roll)
    \/ \E u \in Users : CollectWool(u)
    \/ \E u \in Users, amount \in PurchaseAmounts : Purchase(u, amount)

Spec == Init /\ [][Next]_vars

----------------------------------------------------------------------------
(* The requests of two workers, interleaved at their queries and commits.  *)
(* Each request has its own database session: what it read stays in its    *)
(* locals, and a commit writes the columns it assigned.                     *)

Begin ==
    /\ served < MaxConcRequests
    /\ served' = served + 1
    /\ UNCHANGED now

Step == UNCHANGED <<now, served>>

Done(w, op, out) ==
    /\ req' = [req EXCEPT ![w] = Idle]
    /\ result' = Result(op, req[w].user_id, req[w].session_id, req[w].time,
                        req[w].amount, out)

\* start_session: the query for an active session
BeginStart(w, u, t) ==
    /\ req[w].pc = "idle"
    /\ Begin
    /\ IF ActiveSessions(db, u) # {}
       THEN /\ result' = Result("start", u, 0, t, 0,
                    Raise(db, "ValidationError",
                          "User already has an active sleep session"))
            /\ UNCHANGED <<db, req>>
       ELSE /\ req' = [req EXCEPT ![w] =
                    [Idle EXCEPT !.pc = "start_commit", !.op = "start",
                                 !.user_id = u, !.time = t]]
            /\ UNCHANGED <<db, result>>

CommitStart(w) ==
    /\ req[w].pc = "start_commit"
    /\ Step
    /\ db' = start_session_commit(db, req[w].user_id, req[w].time)
    /\ Done(w, "start", Ok(db', Some(Len(db'.sleep_sessions))))

\* spend_wool: the query of the user and the sufficiency check
BeginPurchase(w, u, amount) ==
    /\ req[w].pc = "idle"
    /\ Begin
    /\ IF InsufficientWool(db.wool_balance[u], amount)
       THEN /\ result' = Result("purchase", u, 0, 0, amount,
                    Raise(db, "InsufficientWoolError", "Insufficient wool"))
            /\ UNCHANGED <<db, req>>
       ELSE /\ req' = [req EXCEPT ![w] =
                    [Idle EXCEPT !.pc = "spend_commit", !.op = "purchase",
                                 !.user_id = u, !.amount = amount,
                                 !.read_balance = db.wool_balance[u]]]
            /\ UNCHANGED <<db, result>>

CommitPurchase(w) ==
    /\ req[w].pc = "spend_commit"
    /\ Step
    /\ db' = spend_wool_commit(db, req[w].user_id, req[w].read_balance,
                               req[w].amount, "shop_purchase")
    /\ Done(w, "purchase", Ok(db', Some(TRUE)))

\* collect_wool: the query of the generation rate
BeginCollect(w, u) ==
    /\ req[w].pc = "idle"
    /\ Begin
    /\ IF get_generation_rate(db, u) <= 0
       THEN /\ result' = Result("collect", u, 0, 0, 0,
                    Raise(db, "HTTPException", "No sheep to generate wool"))
            /\ UNCHANGED <<db, req>>
       ELSE /\ req' = [req EXCEPT ![w] =
                    [Idle EXCEPT !.pc = "add_query", !.op = "collect",
                                 !.user_id = u,
                                 !.amount = get_generation_rate(db, u)]]
            /\ UNCHANGED <<db, result>>

\* add_wool: the query of the user
AddQuery(w) ==
    /\ req[w].pc = "add_query"
    /\ Step
    /\ req' = [req EXCEPT ![w].pc = "add_commit",
                          ![w].read_balance = db.wool_balance[req[w].user_id]]
    /\ UNCHANGED <<db, result>>

\* add_wool: the commit; complete_session goes on to the sheep reward
AddCommit(w) ==
    /\ req[w].pc = "add_commit"
    /\ Step
    /\ db' = add_wool_commit(db, req[w].user_id, req[w].read_balance,
                             req[w].amount,
                             IF req[w].op = "collect" THEN "manual_collection"
                             ELSE "sleep_reward")
    /\ IF req[w].op = "collect"
       THEN Done(w, "collect", Ok(db', Some(req[w].read_balance + req[w].amount)))
       ELSE /\ req' = [req EXCEPT
                    ![w].pc = IF req[w].quality >= 2 * SheepQuality
                                 /\ SheepReward(req[w].quality, req[w].roll) # None
                              THEN "sheep_commit" ELSE "complete_commit",
                    ![w].reward = Some([wool |-> req[w].amount, new_sheep |-> None])]
            /\ UNCHANGED result

\* create_sheep: the commit
SheepCommit(w) ==
    /\ req[w].pc = "sheep_commit"
    /\ Step
    /\ db' = create_sheep(db, req[w].user_id,
                          Get(SheepReward(req[w].quality, req[w].roll)))
    /\ req' = [req EXCEPT ![w].pc = "complete_commit",
                          ![w].reward = Some([wool |-> req[w].amount,
                                              new_sheep |-> Some(Len(db'.sheep))])]
    /\ UNCHANGED result

\* complete_session: the query of the session and the duration
BeginComplete(w, sid, u, dur, roll) ==
    /\ req[w].pc = "idle"
    /\ Begin
    /\ IF CompleteRefusal(db, sid, u) # ""
       THEN /\ result' = Result("complete", u, sid, EndTime(sid, dur), 0,
                    Raise(db, "ValidationError", CompleteRefusal(db, sid, u)))
            /\ UNCHANGED <<db, req>>
       ELSE /\ req' = [req EXCEPT ![w] =
                    [Idle EXCEPT !.pc = IF TooShort(dur) THEN "short_commit"
                                        ELSE "score_query",
                                 !.op = "complete", !.user_id = u,
                                 !.session_id = sid,
                                 !.start_time = db.sleep_sessions[sid].start_time,
                                 !.time = EndTime(sid, dur),
                                 !.duration = CapDuration(dur), !.roll = roll]]
            /\ UNCHANGED <<db, result>>

ShortCommit(w) ==
    /\ req[w].pc = "short_commit"
    /\ Step
    /\ db' = complete_short_commit(db, req[w].session_id, req[w].time,
                                   req[w].duration)
    /\ Done(w, "complete",
            Ok(db', Some([message |-> "Sleep session too short",
                          quality_score |-> 0, reward |-> None])))

\* calculate_quality_score: the query of the recent sessions
ScoreQuery(w) ==
    LET quality_score == calculate_quality_score(db, req[w].duration,
                             req[w].start_time, req[w].user_id, now)
    IN  /\ req[w].pc = "score_query"
        /\ Step
        /\ req' = [req EXCEPT
                ![w].quality = quality_score,
                ![w].pc = IF quality_score >= 2 * RewardQuality
                          THEN "add_query" ELSE "complete_commit",
                ![w].amount = IF quality_score >= 2 * RewardQuality
                              THEN WoolReward(req[w].duration, quality_score)
                              ELSE 0]
        /\ UNCHANGED <<db, result>>

CompleteCommit(w) ==
    /\ req[w].pc = "complete_commit"
    /\ Step
    /\ db' = complete_commit(db, req[w].session_id, req[w].time, req[w].duration,
                             req[w].quality, req[w].reward)
    /\ Done(w, "complete",
            Ok(db', Some([message |-> "", quality_score |-> req[w].quality,
                          reward |-> req[w].reward])))

\* the request dies between two of its steps (the worker is killed, the
\* connection to the database is lost): what it committed stays
Crash(w) ==
    /\ req[w].pc # "idle"
    /\ Step
    /\ req' = [req EXCEPT ![w] = Idle]
    /\ result' = Result(req[w].op, req[w].user_id, req[w].session_id,
                        req[w].time, req[w].amount,
                        Raise(db, "Interrupted", req[w].pc))
    /\ UNCHANGED db

NextConc ==
    \E w \in Workers :
        \/ \E u \in Users, t \in ConcStartTimes : BeginStart(w, u, t)
        \/ CommitStart(w)
        \/ \E u \in Users, amount \in ConcAmounts : BeginPurchase(w, u, amount)
        \/ CommitPurchase(w)
        \/ \E u \in Users : BeginCollect(w, u)
        \/ AddQuery(w)
        \/ AddCommit(w)
        \/ SheepCommit(w)
        \/ \E sid \in SessionIds, u \in Users, dur \in ConcDurations, roll \in BOOLEAN :
              BeginComplete(w, sid, u, dur, roll)
        \/ ShortCommit(w)
        \/ ScoreQuery(w)
        \/ CompleteCommit(w)
        \/ Crash(w)

SpecConc == Init /\ [][NextConc]_vars

----------------------------------------------------------------------------
(* The requests after a history of nights.  The account HistoryUser has     *)
(* slept up to MaxHistory nights in a row, each started and completed by   *)
(* start_session and complete_session at its own time; then it goes on     *)
(* with the nights of Spec at Now0.                                         *)

HistoryUser == "u1"

\* the times of day the nights of the history start at, in minutes: 20:00,
\* 22:00 and 23:30.  Three nights of them have a standard deviation of 0
\* (the same time), 0.87 (22:00, 22:00, 23:30), 1.15 (20:00, 22:00, 22:00)
\* or 2.02 hours (20:00, 20:00, 23:30).
HistoryTimes == {20 * 60, 22 * 60, 23 * 60 + 30}

\* the day of the first night: outside and inside the window of seven days
FirstDays == {1, 5}

\* the length of a night of the history, in minutes
HistoryNight == 8 * 60

Histories == UNION {[1..n -> HistoryTimes] : n \in 0..MaxHistory}

RECURSIVE HistoryDb(_, _, _)
\* the database after the nights of times, the first one on first_day
HistoryDb(d, first_day, times) ==
    IF times = <<>> THEN d
    ELSE LET start_time == Day(first_day, 0, 0) + Head(times)
             end_time == start_time + HistoryNight
             started == start_session(d, HistoryUser, start_time)
             completed == complete_session(started.db, Get(started.ret),
                                           HistoryUser, end_time, FALSE, end_time)
         IN  HistoryDb(completed.db, first_day + 1, Tail(times))

InitHistory ==
    /\ \E first_day \in FirstDays, times \in Histories :
          db = HistoryDb(RegisteredDb, first_day, times)
    /\ now = Now0
    /\ served = 0
    /\ result = NoResult
    /\ req = [w \in Workers |-> Idle]

\* the account goes on with its nights: it starts one, and completes the
\* last one it started
NextHistory ==
    \/ \E t \in StartTimes : StartSession(HistoryUser, t)
    \/ \E dur \in Durations, roll \in BOOLEAN :
          CompleteSession(Len(db.sleep_sessions), HistoryUser, dur, roll)

SpecHistory == InitHistory /\ [][NextHistory]_vars

----------------------------------------------------------------------------
(* The requests on the sheep of api/v1/sheep.py, each run to completion.    *)

\* the values of SheepUpdate.is_favorite
FavoriteValues == {None, Some(TRUE), Some(FALSE)}

\* the sheep types POST /create is asked for
CreateTypes == {"merino"}

\* the sheep ids a client may send: those of the table and one of no sheep
SheepIds == 1..(Len(db.sheep) + 1)

\* the request of PATCH /{sheep_id} by the is_favorite it carries
SheepOp(is_favorite) ==
    IF is_favorite = Some(TRUE) THEN "set_favorite"
    ELSE IF is_favorite = Some(FALSE) THEN "unset_favorite"
    ELSE "update_sheep"

SheepResult(op, user_id, sheep_id, out) ==
    [op |-> op, user_id |-> user_id, sheep_id |-> sheep_id,
     exc |-> out.exc, msg |-> out.msg, ret |-> out.ret]

UpdateSheep(sheep_id, u, is_favorite) ==
    LET out == update_sheep_route(db, sheep_id, u, is_favorite)
    IN  /\ Serve
        /\ db' = out.db
        /\ result' = SheepResult(SheepOp(is_favorite), u, sheep_id, out)

CreateSheep(u, sheep_type_id) ==
    /\ Serve
    /\ db' = create_sheep(db, u, sheep_type_id)
    /\ result' = SheepResult("create_sheep", u, Len(db'.sheep),
                             Ok(db', Some(db'.sheep[Len(db'.sheep)])))

NextSheep ==
    \/ \E sheep_id \in SheepIds, u \in Users, is_favorite \in FavoriteValues :
          UpdateSheep(sheep_id, u, is_favorite)
    \/ \E u \in Users, sheep_type_id \in CreateTypes :
          CreateSheep(u, sheep_type_id)

SpecSheep == Init /\ [][NextSheep]_vars

----------------------------------------------------------------------------
(* The requests on the sheep of two workers, interleaved.  update_sheep is *)
(* the query of the sheep, the UPDATE of the other sheep, which runs when   *)
(* it is called, and the commit, which flushes the UPDATE of the sheep.     *)
(* The database is the SQLite file of config.py: the first statement that   *)
(* writes opens the write transaction of the request, and until its commit  *)
(* or its rollback no other request writes.                                 *)

\* another request is in its write transaction
WriteLocked(w) ==
    \E v \in Workers \ {w} : req[v].pc = "sheep_commit"

\* update_sheep: the query of the sheep
BeginUpdateSheep(w, sheep_id, u, is_favorite) ==
    /\ req[w].pc = "idle"
    /\ Begin
    /\ IF FindSheep(db, sheep_id, u) = {}
       THEN /\ result' = SheepResult(SheepOp(is_favorite), u, sheep_id,
                    Raise(db, "HTTPException", "Sheep not found"))
            /\ UNCHANGED <<db, req>>
       ELSE /\ req' = [req EXCEPT ![w] =
                    [Idle EXCEPT !.pc = IF is_favorite = Some(TRUE)
                                        THEN "sheep_clear" ELSE "sheep_flush",
                                 !.op = SheepOp(is_favorite), !.user_id = u,
                                 !.sheep_id = sheep_id,
                                 !.is_favorite = is_favorite,
                                 !.read_favorite = db.sheep[sheep_id].is_favorite]]
            /\ UNCHANGED <<db, result>>

\* update_sheep: the UPDATE of the other sheep opens the write transaction;
\* what it writes is in the database at the commit
ClearOthers(w) ==
    /\ req[w].pc = "sheep_clear"
    /\ ~WriteLocked(w)
    /\ Step
    /\ req' = [req EXCEPT ![w].pc = "sheep_commit"]
    /\ UNCHANGED <<db, result>>

\* update_sheep: the commit of a request that has cleared the other sheep
CommitSetFavorite(w) ==
    /\ req[w].pc = "sheep_commit"
    /\ Step
    /\ db' = update_sheep_commit(
                 unfavorite_others(db, req[w].sheep_id, req[w].user_id),
                 req[w].sheep_id, req[w].read_favorite, req[w].is_favorite)
    /\ req' = [req EXCEPT ![w] = Idle]
    /\ result' = SheepResult(req[w].op, req[w].user_id, req[w].sheep_id,
                             Ok(db', Some(db'.sheep[req[w].sheep_id])))

\* update_sheep: the commit of a request that clears no sheep
CommitUpdateSheep(w) ==
    /\ req[w].pc = "sheep_flush"
    /\ ~WriteLocked(w)
    /\ Step
    /\ db' = update_sheep_commit(db, req[w].sheep_id, req[w].read_favorite,
                                 req[w].is_favorite)
    /\ req' = [req EXCEPT ![w] = Idle]
    /\ result' = SheepResult(req[w].op, req[w].user_id, req[w].sheep_id,
                             Ok(db', Some(db'.sheep[req[w].sheep_id])))

\* create_sheep: the INSERT and the commit
ConcCreateSheep(w, u, sheep_type_id) ==
    /\ req[w].pc = "idle"
    /\ ~WriteLocked(w)
    /\ Begin
    /\ db' = create_sheep(db, u, sheep_type_id)
    /\ result' = SheepResult("create_sheep", u, Len(db'.sheep),
                             Ok(db', Some(db'.sheep[Len(db'.sheep)])))
    /\ UNCHANGED req

\* the request dies: its write transaction is rolled back
CrashSheep(w) ==
    /\ req[w].pc # "idle"
    /\ Step
    /\ req' = [req EXCEPT ![w] = Idle]
    /\ result' = SheepResult(req[w].op, req[w].user_id, req[w].sheep_id,
                             Raise(db, "Interrupted", req[w].pc))
    /\ UNCHANGED db

NextSheepConc ==
    \E w \in Workers :
        \/ \E sheep_id \in SheepIds, u \in Users, is_favorite \in FavoriteValues :
              BeginUpdateSheep(w, sheep_id, u, is_favorite)
        \/ ClearOthers(w)
        \/ CommitSetFavorite(w)
        \/ CommitUpdateSheep(w)
        \/ \E u \in Users, sheep_type_id \in CreateTypes :
              ConcCreateSheep(w, u, sheep_type_id)
        \/ CrashSheep(w)

SpecSheepConc == Init /\ [][NextSheepConc]_vars

----------------------------------------------------------------------------
(* The quality scorer as a function: calculate_quality_score applied to a   *)
(* duration, a start_time and the history of the account, once a run.       *)

\* durations from 0 to 100 hours, in minutes, at the edges of the bands of
\* the duration component
ScoreDurations ==
    {0, 59, 60, 359, 360, 419, 420, 479, 480, 600, 601, 960, 961, 100 * 60}

\* a start_time in every hour of the day
ScoreStartTimes == {Day(8, h, 0) : h \in 0..23}

ScoreSession(duration, start_time) ==
    LET scores ==
            [duration |-> duration,
             duration_score |-> DurationScore(duration),
             timing_score |-> TimingScore(HourOf(start_time)),
             consistency_score |->
                 calculate_consistency_score(db, HistoryUser, now),
             quality_score |->
                 calculate_quality_score(db, duration, start_time,
                                         HistoryUser, now)]
    IN  /\ result' = Result("score", HistoryUser, 0, start_time, 0,
                            Ok(db, Some(scores)))
        /\ UNCHANGED <<db, now, served, req>>

NextScore ==
    /\ result = NoResult
    /\ \E duration \in ScoreDurations, start_time \in ScoreStartTimes :
          ScoreSession(duration, start_time)

SpecScore == InitHistory /\ [][NextScore]_vars

----------------------------------------------------------------------------
(* The wool of calculate_reward as a function of the duration after the    *)
(* cap and of a quality score the scorer gives, once a run.                 *)

\* the durations of a rewarded session: every minute from 1 to 16 hours
RewardDurations == (MinDurationHours * 60)..(MaxDurationHours * 60)

\* the consistency ratios, in quarters
ConsistencyScores == 1..4

RewardSession(duration, hour_of_day, consistency_score) ==
    LET quality_score ==
            Min(2 * DurationScore(duration) + 2 * TimingScore(hour_of_day)
                    + 15 * consistency_score, 2 * 100)
    IN  /\ quality_score >= 2 * RewardQuality
        /\ result' = Result("reward", "", 0, 0, 0,
                Ok(db, Some([duration |-> duration,
                             quality_score |-> quality_score,
                             wool |-> WoolReward(duration, quality_score)])))
        /\ UNCHANGED <<db, now, served, req>>

NextReward ==
    /\ result = NoResult
    /\ \E duration \in RewardDurations, hour_of_day \in 0..23,
          consistency_score \in ConsistencyScores :
          RewardSession(duration, hour_of_day, consistency_score)

SpecReward == Init /\ [][NextReward]_vars

----------------------------------------------------------------------------
(* The wool service as functions: add_wool and spend_wool called for a     *)
(* user of the users table or for a user id of no row.                     *)

\* a user id of no row of the users table
NoUser == "u0"

LedgerUsers == Users \cup {NoUser}
CreditAmounts == {1, 7}
CreditSources == {"sleep_reward", "manual_collection"}
DebitAmounts == {3, 9}

LedgerResult(op, user_id, amount, source, out) ==
    [op |-> op, user_id |-> user_id, amount |-> amount, source |-> source,
     exc |-> out.exc, msg |-> out.msg, ret |-> out.ret]

Credit(u, amount, source) ==
    LET out == add_wool(db, u, amount, source)
    IN  /\ Serve
        /\ db' = out.db
        /\ result' = LedgerResult("credit", u, amount, source, out)

Debit(u, amount) ==
    LET out == spend_wool(db, u, amount, "shop_purchase")
    IN  /\ Serve
        /\ db' = out.db
        /\ result' = LedgerResult("debit", u, amount, "shop_purchase", out)

NextLedger ==
    \/ \E u \in LedgerUsers, amount \in CreditAmounts, source \in CreditSources :
          Credit(u, amount, source)
    \/ \E u \in LedgerUsers, amount \in DebitAmounts : Debit(u, amount)

SpecLedger == Init /\ [][NextLedger]_vars

----------------------------------------------------------------------------
(* The requests at Now0 after nights around the start of the window of     *)
(* seven days: nights of HistoryUser that started a minute before the      *)
(* window, exactly at its start and inside it, a night too short to be     *)
(* scored, a night left active, and a night of the other account.           *)

WindowStart == Now0 - WindowDays * 1440

\* a night: the account, the start and the minutes slept (0: still active)
Night(user_id, start_time, minutes) ==
    [user_id |-> user_id, start_time |-> start_time, minutes |-> minutes]

WindowNights ==
    {Night(HistoryUser, WindowStart - 1, HistoryNight),
     Night(HistoryUser, WindowStart, HistoryNight),
     Night(HistoryUser, Day(5, 22, 0), HistoryNight),
     Night(HistoryUser, Day(5, 22, 0), 30),
     Night(HistoryUser, Day(6, 22, 0), 0),
     Night("u2", Day(5, 22, 0), HistoryNight)}

WindowHistories == UNION {[1..n -> WindowNights] : n \in 0..MaxHistory}

RECURSIVE WindowDb(_, _)
\* the database after the nights, each started by start_session and, unless
\* it is left active, completed by complete_session when it ended
WindowDb(d, nights) ==
    IF nights = <<>> THEN d
    ELSE LET night == Head(nights)
             end_time == night.start_time + night.minutes
             started == start_session(d, night.user_id, night.start_time)
         IN  IF started.exc # "" \/ night.minutes = 0
             THEN WindowDb(started.db, Tail(nights))
             ELSE WindowDb(complete_session(started.db, Get(started.ret),
                               night.user_id, end_time, FALSE, end_time).db,
                           Tail(nights))

InitWindow ==
    /\ \E nights \in WindowHistories : db = WindowDb(RegisteredDb, nights)
    /\ now = Now0
    /\ served = 0
    /\ result = NoResult
    /\ req = [w \in Workers |-> Idle]

\* GET /stats/weekly/{user_id}: a read, not counted among the requests
WeeklyStats(u) ==
    /\ result' = Result("stats", u, 0, 0, 0, get_weekly_stats(db, u, now))
    /\ UNCHANGED <<db, now, served, req>>

\* HistoryUser starts a night and completes the night it has active; the
\* weekly statistics of either account are asked for
NextWindow ==
    \/ \E t \in ConcStartTimes : StartSession(HistoryUser, t)
    \/ \E sid \in ActiveSessions(db, HistoryUser), dur \in ConcDurations,
          roll \in BOOLEAN :
          CompleteSession(sid, HistoryUser, dur, roll)
    \/ \E u \in Users : WeeklyStats(u)

SpecWindow == InitWindow /\ [][NextWindow]_vars

----------------------------------------------------------------------------

(* The consistency score as a function of the start times of the history:  *)
(* calculate_quality_score applied once a run to a night of HistoryUser     *)
(* after up to MaxHistory nights that started at the times of StdevTimes.   *)

\* times of day, in minutes.  21:54, 22:00 and 22:06 are the start hours
\* 21.9, 22.0 and 22.1; 21:30 and 22:30, 21:00 and 23:00, 18:00 and 20:00
\* are half an hour, one hour and two or four hours from 22:00; 00:01,
\* 00:31 and 01:01 are half an hour apart and are not binary fractions of
\* an hour.
StdevTimes ==
    {21 * 60 + 54, 22 * 60, 22 * 60 + 6, 21 * 60 + 30, 22 * 60 + 30,
     21 * 60, 23 * 60, 18 * 60, 20 * 60, 1, 31, 61}

\* the day of the first night of the history: all of them are in the window
StdevFirstDay == 5

StdevHistories == UNION {[1..n -> StdevTimes] : n \in 0..MaxHistory}

InitStdev ==
    /\ \E times \in StdevHistories :
          db = HistoryDb(RegisteredDb, StdevFirstDay, times)
    /\ now = Now0
    /\ served = 0
    /\ result = NoResult
    /\ req = [w \in Workers |-> Idle]

NextStdev ==
    /\ result = NoResult
    /\ \E duration \in ConcDurations, start_time \in ConcStartTimes :
          ScoreSession(duration, start_time)

SpecStdev == InitStdev /\ [][NextStdev]_vars

----------------------------------------------------------------------------

(* The generation rate as a function of the sheep table:                    *)
(* get_generation_rate applied once a run, for a user with sheep or for a   *)
(* user id with none, after up to MaxFlock sheep were created.              *)

\* the sheep types of current_wool_rate
RateTypes == {"starter", "merino", "suffolk", "cotswold", "golden"}

\* a sheep to create: whose and of which type
Flocks ==
    UNION {[1..n -> [user_id : Users, sheep_type_id : RateTypes]] :
               n \in 0..MaxFlock}

RECURSIVE FlockDb(_, _)
\* the database after create_sheep for each sheep of the flock
FlockDb(d, flock) ==
    IF flock = <<>> THEN d
    ELSE FlockDb(create_sheep(d, Head(flock).user_id, Head(flock).sheep_type_id),
                 Tail(flock))

InitRate ==
    /\ \E flock \in Flocks : db = FlockDb(RegisteredDb, flock)
    /\ now = Now0
    /\ served = 0
    /\ result = NoResult
    /\ req = [w \in Workers |-> Idle]

GenerationRate(u) ==
    /\ result' = Result("rate", u, 0, 0, 0, Ok(db, Some(get_generation_rate(db, u))))
    /\ UNCHANGED <<db, now, served, req>>

NextRate ==
    /\ result = NoResult
    /\ \E u \in LedgerUsers : GenerationRate(u)

SpecRate == InitRate /\ [][NextRate]_vars

----------------------------------------------------------------------------

(* The starts and the completions of two workers, interleaved, where every *)
(* request runs to its end: no request is interrupted.                      *)

NextComplete ==
    \E w \in Workers :
        \/ \E u \in Users, t \in ConcStartTimes : BeginStart(w, u, t)
        \/ CommitStart(w)
        \/ \E sid \in SessionIds, u \in Users, dur \in ConcDurations, roll \in BOOLEAN :
              BeginComplete(w, sid, u, dur, roll)
        \/ ShortCommit(w)
        \/ ScoreQuery(w)
        \/ AddQuery(w)
        \/ AddCommit(w)
        \/ SheepCommit(w)
        \/ CompleteCommit(w)

SpecComplete == Init /\ [][NextComplete]_vars

----------------------------------------------------------------------------

(* The operations of the two accounts side by side, each run to            *)
(* completion: start_session, complete_session, add_wool, spend_wool,       *)
(* create_sheep and update_sheep with is_favorite true.                     *)

NextAccounts ==
    \/ \E u \in Users, t \in ConcStartTimes : StartSession(u, t)
    \/ \E sid \in SessionIds, u \in Users, dur \in ConcDurations, roll \in BOOLEAN :
          CompleteSession(sid, u, dur, roll)
    \/ \E u \in Users, amount \in ConcAmounts : Credit(u, amount, "manual_collection")
    \/ \E u \in Users, amount \in ConcAmounts : Debit(u, amount)
    \/ \E u \in Users, sheep_type_id \in CreateTypes : CreateSheep(u, sheep_type_id)
    \/ \E sheep_id \in SheepIds, u \in Users : UpdateSheep(sheep_id, u, Some(TRUE))

SpecAccounts == Init /\ [][NextAccounts]_vars

----------------------------------------------------------------------------

(* One night after a history: HistoryUser starts a session at any hour of  *)
(* day 8 and completes it after a duration of BoundDurations, once a run.   *)

\* the durations of ScoreDurations, and an end_time an hour before the start
BoundDurations == ScoreDurations \cup {-60}

NextBound ==
    \/ /\ result = NoResult
       /\ \E t \in ScoreStartTimes : StartSession(HistoryUser, t)
    \/ /\ result.op = "start"
       /\ \E dur \in BoundDurations, roll \in BOOLEAN :
             CompleteSession(Len(db.sleep_sessions), HistoryUser, dur, roll)

SpecBound == InitHistory /\ [][NextBound]_vars

----------------------------------------------------------------------------

(* services/fish_audio_service.py: generate_speech, called once a run with *)
(* valid arguments and an API key.  The call is the request of worker 1;    *)
(* its locals are in req[1].  What the API answers to a request is the      *)
(* choice of the environment: a response with a status and a body, or an    *)
(* exception of the requests library.                                       *)

MAX_RETRIES == 3
BASE_DELAY_MS == 1000

\* the delay before the attempt after attempt, in milliseconds
calculate_backoff_delay(attempt) == BASE_DELAY_MS * 2^attempt

\* the body of a response: JSON of an object, text that is not JSON, or empty
Bodies == {"json", "text", ""}

\* what requests.post gives: a response, or it raises
PostOutcomes ==
    [method : {"POST"}, kind : {"response"},
     status : {200, 400, 401, 402, 429, 500}, body : Bodies]
    \cup [method : {"POST"}, kind : {"Timeout", "ConnectionError"},
          status : {0}, body : {""}]

\* what requests.get of the audio file gives
GetOutcomes ==
    [method : {"GET"}, kind : {"response"}, status : {200, 404}, body : {""}]
    \cup [method : {"GET"}, kind : {"Timeout", "ConnectionError"},
          status : {0}, body : {""}]

\* what response.json() raises on a body that is not JSON: the
\* JSONDecodeError of requests from 2.27 on, a RequestException, or the
\* ValueError of the json module before
JsonErrors == {"RequestException", "ValueError"}

\* the locals of generate_speech before its first attempt; seen is the
\* requests made so far with what came of them, slept the delays waited
SpeechCall(save_to, json_error) ==
    [pc |-> "post", attempt |-> 0, seen |-> <<>>, slept |-> <<>>,
     save_to |-> save_to, json_error |-> json_error]

\* the next position of the call, or how it ended
Goes(call) == [done |-> FALSE, call |-> call, exc |-> "", ret |-> None]
Returns(call, r) == [done |-> TRUE, call |-> call, exc |-> "", ret |-> Some(r)]
Raises(call, e) == [done |-> TRUE, call |-> call, exc |-> e, ret |-> None]

\* time.sleep(delay) and continue: the next attempt
Retry(call) ==
    Goes([call EXCEPT !.pc = "post",
                      !.attempt = @ + 1,
                      !.slept = Append(@, calculate_backoff_delay(call.attempt))])

\* except requests.exceptions.Timeout
OnTimeout(call) ==
    IF call.attempt < MAX_RETRIES - 1 THEN Retry(call)
    ELSE Raises(call, "FishAudioError")

\* an exception of the requests library or of response.json() in the try
OnException(call, kind) ==
    CASE kind = "Timeout" -> OnTimeout(call)
      [] kind \in {"ConnectionError", "RequestException"} -> Raises(call, "FishAudioError")
      [] OTHER -> Raises(call, kind)

\* the statuses of an error response, after error_data was read
OnStatus(call, status) ==
    IF status = 429
    THEN IF call.attempt < MAX_RETRIES - 1 THEN Retry(call)
         ELSE Raises(call, "FishAudioRateLimitError")
    ELSE IF status = 402 THEN Raises(call, "FishAudioNoCreditsError")
    ELSE Raises(call, "FishAudioError")

\* requests.post and what follows it in the try, up to the download
post_attempt(call, outcome) ==
    LET seen == [call EXCEPT !.seen = Append(@, outcome)]
    IN  IF outcome.kind # "response" THEN OnException(seen, outcome.kind)
        ELSE IF outcome.status < 400
        THEN IF outcome.body # "json" THEN OnException(seen, call.json_error)
             ELSE IF call.save_to THEN Goes([seen EXCEPT !.pc = "download"])
             ELSE Returns(seen, [local_path |-> FALSE])
        ELSE IF outcome.body = "text" THEN OnException(seen, call.json_error)
        ELSE OnStatus(seen, outcome.status)

\* requests.get(audio_url) and the write of the file, in the same try
download_audio_file(call, outcome) ==
    LET seen == [call EXCEPT !.seen = Append(@, outcome)]
    IN  IF outcome.kind # "response" THEN OnException(seen, outcome.kind)
        ELSE Returns(seen, [local_path |-> outcome.status < 400])

SpeechResult(out) ==
    [op |-> "speech", exc |-> out.exc, ret |-> out.ret, seen |-> out.call.seen,
     slept |-> out.call.slept, save_to |-> out.call.save_to,
     json_error |-> out.call.json_error]

\* the call goes on, or ends with its return value or its exception
SpeechStep(out) ==
    /\ req' = [req EXCEPT ![1] = IF out.done THEN Idle ELSE out.call]
    /\ result' = IF out.done THEN SpeechResult(out) ELSE result
    /\ UNCHANGED <<db, now, served>>

GenerateSpeech(save_to, json_error) ==
    /\ result = NoResult
    /\ req[1].pc = "idle"
    /\ req' = [req EXCEPT ![1] = SpeechCall(save_to, json_error)]
    /\ served' = served + 1
    /\ UNCHANGED <<db, now, result>>

Post(outcome) ==
    /\ req[1].pc = "post"
    /\ SpeechStep(post_attempt(req[1], outcome))

Download(outcome) ==
    /\ req[1].pc = "download"
    /\ SpeechStep(download_audio_file(req[1], outcome))

NextSpeech ==
    \/ \E save_to \in BOOLEAN, json_error \in JsonErrors :
          GenerateSpeech(save_to, json_error)
    \/ \E outcome \in PostOutcomes : Post(outcome)
    \/ \E outcome \in GetOutcomes : Download(outcome)

SpecSpeech == Init /\ [][NextSpeech]_vars

----------------------------------------------------------------------------

(* services/audio_player.py: play_audio_from_url, with pygame installed.    *)
(* Here db is the file system and the network as the player sees them: the  *)
(* files of the cache directory and of the directory of temporary files     *)
(* with their contents, and the URLs requested so far.                      *)

Urls == {"url1", "url2"}

\* hashlib.md5 of the URL, one name for each URL
UrlHash(url) == IF url = "url1" THEN 1 ELSE 2

get_cache_path(url) == [dir |-> "sheepify_audio_cache", name |-> UrlHash(url)]

\* os.path.exists, the writing of a file and os.remove
path_exists(files, path) == path \in DOMAIN files

write_file(files, path, content) ==
    [p \in DOMAIN files \cup {path} |-> IF p = path THEN content ELSE files[p]]

remove_file(files, path) == [p \in DOMAIN files \ {path} |-> files[p]]

\* what requests.get and the reading of the body come to: the whole audio,
\* an error status or no connection, or a connection lost inside the body
DownloadOutcomes == {"ok", "failed", "broken"}

\* what pygame makes of a file that holds audio
PlayOutcomes == {"played", "pygame.error"}

download_audio(fs, url, save_path, outcome) ==
    LET path == IF save_path = None THEN get_cache_path(url) ELSE save_path[1]
        asked == [fs EXCEPT !.fetched = Append(@, url)]
    IN  IF path_exists(fs.files, path)
        THEN [fs |-> fs, exc |-> "", ret |-> Some(path)]
        ELSE CASE outcome = "ok" ->
                    [fs |-> [asked EXCEPT !.files = write_file(@, path, "audio")],
                     exc |-> "", ret |-> Some(path)]
               [] outcome = "broken" ->
                    [fs |-> [asked EXCEPT !.files = write_file(@, path, "partial")],
                     exc |-> "AudioPlayerError", ret |-> None]
               [] OTHER ->
                    [fs |-> asked, exc |-> "AudioPlayerError", ret |-> None]

\* the exception of play_local_audio, "" if it returns; pygame loads no
\* audio from an empty file
play_local_audio(fs, file_path, outcome) ==
    IF ~path_exists(fs.files, file_path) THEN "AudioPlayerError"
    ELSE IF fs.files[file_path] = "" \/ outcome # "played" THEN "AudioPlayerError"
    ELSE ""

\* tempfile.NamedTemporaryFile(delete=False, suffix='.mp3') creates the file
\* of the name
play_audio_from_url(fs, url, cache, temp_name, download_outcome, play_outcome) ==
    LET temp_file == [dir |-> "tmp", name |-> temp_name]
        created == IF cache THEN fs
                   ELSE [fs EXCEPT !.files = write_file(@, temp_file, "")]
        got == download_audio(created, url,
                              IF cache THEN None ELSE Some(temp_file),
                              download_outcome)
    IN  IF got.exc # "" THEN [fs |-> got.fs, exc |-> got.exc, played |-> None]
        ELSE LET local_path == got.ret[1]
             IN  [fs |-> IF ~cache /\ path_exists(got.fs.files, local_path)
                         THEN [got.fs EXCEPT !.files = remove_file(@, local_path)]
                         ELSE got.fs,
                  exc |-> play_local_audio(got.fs, local_path, play_outcome),
                  played |-> Some(got.fs.files[local_path])]

clear_cache(fs) ==
    [fs EXCEPT !.files =
        [p \in {q \in DOMAIN @ : q.dir # "sheepify_audio_cache"} |-> @[p]]]

InitPlay ==
    /\ db = [files |-> [p \in {} |-> ""], fetched |-> <<>>]
    /\ now = Now0
    /\ served = 0
    /\ result = NoResult
    /\ req = [w \in Workers |-> Idle]

PlayAudioFromUrl(url, cache, download_outcome, play_outcome) ==
    LET out == play_audio_from_url(db, url, cache, served + 1,
                                   download_outcome, play_outcome)
    IN  /\ Serve
        /\ db' = out.fs
        /\ result' = [op |-> "play", url |-> url, cache |-> cache,
                      exc |-> out.exc, played |-> out.played]

ClearCache ==
    /\ Serve
    /\ db' = clear_cache(db)
    /\ result' = [op |-> "clear", url |-> "", cache |-> FALSE, exc |-> "",
                  played |-> None]

NextPlay ==
    \/ \E url \in Urls, cache \in BOOLEAN, download_outcome \in DownloadOutcomes,
          play_outcome \in PlayOutcomes :
          PlayAudioFromUrl(url, cache, download_outcome, play_outcome)
    \/ ClearCache

SpecPlay == InitPlay /\ [][NextPlay]_vars

----------------------------------------------------------------------------

(* The claims *)

RECURSIVE SumLedger(_, _, _, _)
\* the sum of the amounts of the user's transactions from row i on; with a
\* source, of those of that source only
SumLedger(rows, user_id, source, i) ==
    IF i > Len(rows) THEN 0
    ELSE (IF rows[i].user_id = user_id /\ (source = "" \/ rows[i].source = source)
          THEN rows[i].amount ELSE 0)
         + SumLedger(rows, user_id, source, i + 1)

LedgerSum(u) == SumLedger(db.wool_transactions, u, "", 1)

RECURSIVE SumRewards(_, _, _)
\* the sum of reward_wool over the user's completed sessions
SumRewards(rows, user_id, i) ==
    IF i > Len(rows) THEN 0
    ELSE (IF rows[i].user_id = user_id /\ rows[i].status = "completed"
          THEN rows[i].reward_wool ELSE 0)
         + SumRewards(rows, user_id, i + 1)

Quiescent == \A w \in Workers : req[w].pc = "idle"

\* the session the request of the step names, when it is the user's
Owned(sid, u) ==
    sid \in DOMAIN db.sleep_sessions /\ db.sleep_sessions[sid].user_id = u

\* C1: every account has at most one active session in every reachable
\* state, also when Start calls for the same account interleave (each one a
\* query for an active session, then an insert and a commit).
C1_AtMostOneActive ==
    \A u \in Users :
        Cardinality({i \in DOMAIN db.sleep_sessions :
                        /\ db.sleep_sessions[i].user_id = u
                        /\ db.sleep_sessions[i].status = "active"}) <= 1

\* C2: interleaved Debit calls on one account check and update the balance
\* as one atomic step: no two of them have passed the sufficiency check on
\* the same balance that does not cover both, and the balance is never
\* negative and never above the sum of the credits less the debits written.
C2_DebitAtomic ==
    /\ \A w1, w2 \in Workers :
          (/\ w1 # w2
           /\ req[w1].pc = "spend_commit" /\ req[w2].pc = "spend_commit"
           /\ req[w1].user_id = req[w2].user_id
           /\ req[w1].read_balance = req[w2].read_balance)
          => req[w1].amount + req[w2].amount <= req[w1].read_balance
    /\ \A u \in Users :
          db.wool_balance[u] >= 0 /\ db.wool_balance[u] <= LedgerSum(u)

\* C3: after any sequence of credits and debits run one after the other,
\* from balance 0 and an empty ledger, the balance of an account is the sum
\* of the amounts of its ledger entries and is not negative.
C3_BalanceIsLedgerSum ==
    \A u \in Users :
        db.wool_balance[u] = LedgerSum(u) /\ db.wool_balance[u] >= 0

\* a credit, a successful debit and a refused debit on one account
C3_Witness ==
    /\ result.op = "purchase" /\ result.exc = "InsufficientWoolError"
    /\ \E i, j \in DOMAIN db.wool_transactions :
          /\ db.wool_transactions[i].user_id = result.user_id
          /\ db.wool_transactions[j].user_id = result.user_id
          /\ db.wool_transactions[i].amount > 0
          /\ db.wool_transactions[j].source = "shop_purchase"
          /\ db.wool_transactions[j].amount < 0

\* C4: a debit of more than the current balance fails with
\* InsufficientWoolError, leaves the balance as it is and appends no entry.
C4_DebitBeyondBalanceFails ==
    [][(/\ result'.op = "purchase"
        /\ result'.amount > db.wool_balance[result'.user_id])
       => (/\ result'.exc = "InsufficientWoolError"
           /\ db'.wool_balance = db.wool_balance
           /\ db'.wool_transactions = db.wool_transactions)]_vars

\* a debit refused on an account that holds wool
C4_Witness ==
    /\ result.op = "purchase" /\ result.exc = "InsufficientWoolError"
    /\ db.wool_balance[result.user_id] > 0
    /\ result.amount > db.wool_balance[result.user_id]

\* C5: completing a session is all or nothing.  When no request is running,
\* the sleep_reward credits of an account add up to the reward_wool of its
\* completed sessions, and every sheep that is not a starter is the sheep
\* awarded to a completed session: an interrupted Complete leaves nothing.
C5_CompleteAllOrNothing ==
    Quiescent =>
        /\ \A u \in Users :
              SumLedger(db.wool_transactions, u, "sleep_reward", 1)
                  = SumRewards(db.sleep_sessions, u, 1)
        /\ \A k \in DOMAIN db.sheep :
              db.sheep[k].sheep_type_id # "starter" =>
                  \E i \in DOMAIN db.sleep_sessions :
                      /\ db.sleep_sessions[i].status = "completed"
                      /\ db.sleep_sessions[i].user_id = db.sheep[k].user_id
                      /\ db.sleep_sessions[i].new_sheep_awarded = Some(k)

\* C6: completed and cancelled are terminal.  A session that is not active
\* never changes again, an active one only becomes completed or cancelled,
\* and a Complete of a session that is not active fails with the error of a
\* conflict (ValidationError, "Session is not active") and changes nothing.
C6_TerminalStates ==
    [][/\ \A i \in DOMAIN db.sleep_sessions :
            /\ db.sleep_sessions[i].status # "active"
                  => db'.sleep_sessions[i] = db.sleep_sessions[i]
            /\ db'.sleep_sessions[i].status # db.sleep_sessions[i].status
                  => /\ db.sleep_sessions[i].status = "active"
                     /\ db'.sleep_sessions[i].status \in {"completed", "cancelled"}
       /\ (/\ result'.op = "complete"
           /\ Owned(result'.session_id, result'.user_id)
           /\ db.sleep_sessions[result'.session_id].status # "active")
          => (/\ result'.exc = "ValidationError"
              /\ result'.msg = "Session is not active"
              /\ db' = db)]_vars

\* a Complete of a completed session was refused
C6_Witness ==
    /\ result.op = "complete" /\ result.msg = "Session is not active"
    /\ Owned(result.session_id, result.user_id)
    /\ db.sleep_sessions[result.session_id].status = "completed"

\* C7: Start for an account with an active session fails with the error of
\* a conflict (ValidationError), creates no session and changes none; Start
\* for an account with none succeeds and creates one active session with
\* that start_time and no end_time, duration_hours or quality_score.
C7_StartSession ==
    [][result'.op = "start" =>
        IF \E i \in DOMAIN db.sleep_sessions :
               /\ db.sleep_sessions[i].user_id = result'.user_id
               /\ db.sleep_sessions[i].status = "active"
        THEN /\ result'.exc = "ValidationError"
             /\ db' = db
        ELSE /\ result'.exc = ""
             /\ db'.sleep_sessions =
                    Append(db.sleep_sessions,
                           [user_id |-> result'.user_id,
                            start_time |-> result'.time,
                            end_time |-> None, duration_hours |-> None,
                            quality_score |-> None, reward_wool |-> 0,
                            new_sheep_awarded |-> None, status |-> "active"])
             /\ db'.wool_balance = db.wool_balance
             /\ db'.wool_transactions = db.wool_transactions
             /\ db'.sheep = db.sheep]_vars

\* a Start was refused for an account whose active session is still there
C7_Witness ==
    /\ result.op = "start" /\ result.exc = "ValidationError"
    /\ \E i \in DOMAIN db.sleep_sessions :
          /\ db.sleep_sessions[i].user_id = result.user_id
          /\ db.sleep_sessions[i].status = "active"

C9_ShortSession ==
    [][(/\ result'.op = "complete"
        /\ Owned(result'.session_id, result'.user_id)
        /\ db.sleep_sessions[result'.session_id].status = "active"
        /\ result'.time >= db.sleep_sessions[result'.session_id].start_time
        /\ result'.time - db.sleep_sessions[result'.session_id].start_time < 60)
       => (/\ db'.sleep_sessions[result'.session_id].status = "completed"
           /\ db'.sleep_sessions[result'.session_id].quality_score = Some(0)
           /\ db'.sleep_sessions[result'.session_id].reward_wool = 0
           /\ db'.sleep_sessions[result'.session_id].new_sheep_awarded = None
           /\ db'.wool_balance = db.wool_balance
           /\ db'.wool_transactions = db.wool_transactions
           /\ db'.sheep = db.sheep)]_vars

\* C10: Complete with an end_time before the start_time of the session
\* fails with ValidationError and leaves the session active and unchanged,
\* and no completed session has a negative duration_hours.
C10_EndBeforeStart ==
    [][/\ (/\ result'.op = "complete"
           /\ Owned(result'.session_id, result'.user_id)
           /\ db.sleep_sessions[result'.session_id].status = "active"
           /\ result'.time < db.sleep_sessions[result'.session_id].start_time)
          => (result'.exc = "ValidationError" /\ db' = db)
       /\ \A i \in DOMAIN db'.sleep_sessions :
             db'.sleep_sessions[i].status = "completed"
                 => Get(db'.sleep_sessions[i].duration_hours) >= 0]_vars

\* the step completes an active session of the account that asks, with an
\* end_time at least min_raw minutes after its start
CompletesActive(min_raw) ==
    /\ result'.op = "complete"
    /\ Owned(result'.session_id, result'.user_id)
    /\ db.sleep_sessions[result'.session_id].status = "active"
    /\ result'.time - db.sleep_sessions[result'.session_id].start_time >= min_raw

\* C11: completing a session more than 16 hours after its start gives what
\* completing it exactly 16 hours after its start gives, for the same
\* database, start_time and roll: the same duration_hours (16),
\* quality_score, reward_wool, ledger entry, balance and sheep; and no
\* completed session has a duration_hours above 16.
C11_ClampTo16Hours ==
    [][/\ CompletesActive(MaxDurationHours * 60 + 1) =>
            LET sid == result'.session_id
                at16 == db.sleep_sessions[sid].start_time + MaxDurationHours * 60
            IN  \E roll \in BOOLEAN :
                    LET exact == complete_session(db, sid, result'.user_id,
                                                  at16, roll, now)
                    IN  /\ result'.exc = exact.exc
                        /\ result'.ret = exact.ret
                        /\ db' = [exact.db EXCEPT
                                     !.sleep_sessions[sid].end_time =
                                         Some(result'.time)]
                        /\ db'.sleep_sessions[sid].duration_hours =
                               Some(MaxDurationHours * 60)
       /\ \A i \in DOMAIN db'.sleep_sessions :
             db'.sleep_sessions[i].status = "completed"
                 => Get(db'.sleep_sessions[i].duration_hours)
                        <= MaxDurationHours * 60]_vars

\* a session completed twenty hours after its start, stored with 16 hours,
\* that was awarded a sheep
C11_Witness ==
    /\ result.op = "complete" /\ result.exc = ""
    /\ LET s == db.sleep_sessions[result.session_id]
       IN  /\ result.time - s.start_time = 20 * 60
           /\ s.duration_hours = Some(MaxDurationHours * 60)
           /\ s.reward_wool > 0
           /\ s.new_sheep_awarded # None

\* C13: completing an active session of an hour or more runs the reward
\* calculator if and only if the quality_score is 50 or more.  Below 50 the
\* session is completed with reward_wool 0, and no ledger entry, balance or
\* sheep changes; from 50 on exactly one entry of source sleep_reward, of
\* the reward_wool of the session, is appended for the account.
C13_RewardFromQuality50 ==
    [][CompletesActive(MinDurationHours * 60) =>
        LET sid == result'.session_id
            u == result'.user_id
            s == db'.sleep_sessions[sid]
        IN  /\ result'.exc = ""
            /\ s.status = "completed"
            /\ s.quality_score # None
            /\ IF Get(s.quality_score) < 2 * RewardQuality
               THEN /\ s.reward_wool = 0
                    /\ db'.wool_transactions = db.wool_transactions
                    /\ db'.wool_balance = db.wool_balance
                    /\ db'.sheep = db.sheep
               ELSE /\ db'.wool_transactions =
                           Append(db.wool_transactions,
                                  [user_id |-> u, amount |-> s.reward_wool,
                                   balance_after |->
                                       db.wool_balance[u] + s.reward_wool,
                                   source |-> "sleep_reward"])
                    /\ db'.wool_balance =
                           [db.wool_balance EXCEPT ![u] = @ + s.reward_wool]]_vars

\* a session of an hour or more completed with a quality below 50 and no
\* reward, for an account that was rewarded for earlier nights
C13_Witness ==
    /\ result.op = "complete" /\ result.exc = ""
    /\ LET s == db.sleep_sessions[result.session_id]
       IN  /\ Get(s.duration_hours) >= MinDurationHours * 60
           /\ s.quality_score # None
           /\ Get(s.quality_score) < 2 * RewardQuality
           /\ s.reward_wool = 0
           /\ \E i \in DOMAIN db.wool_transactions :
                 /\ db.wool_transactions[i].user_id = result.user_id
                 /\ db.wool_transactions[i].source = "sleep_reward"

\* C15: the account has no other session, its session started at hour 22
\* and is completed nine hours later: the session has quality_score 85,
\* reward_wool 382, the balance rises by 382 with one sleep_reward entry,
\* and a sheep may be awarded: none, or one suffolk.
C15_WorkedExample ==
    [][(/\ CompletesActive(9 * 60)
        /\ result'.time - db.sleep_sessions[result'.session_id].start_time = 9 * 60
        /\ HourOf(db.sleep_sessions[result'.session_id].start_time) = 22
        /\ \A i \in DOMAIN db.sleep_sessions :
              i # result'.session_id
                  => db.sleep_sessions[i].user_id # result'.user_id)
       => LET u == result'.user_id
              s == db'.sleep_sessions[result'.session_id]
          IN  /\ s.status = "completed"
              /\ s.quality_score = Some(2 * 85)
              /\ s.reward_wool = 382
              /\ db'.wool_balance[u] = db.wool_balance[u] + 382
              /\ db'.wool_transactions =
                     Append(db.wool_transactions,
                            [user_id |-> u, amount |-> 382,
                             balance_after |-> db.wool_balance[u] + 382,
                             source |-> "sleep_reward"])
              /\ \/ db'.sheep = db.sheep /\ s.new_sheep_awarded = None
                 \/ /\ db'.sheep = Append(db.sheep, Sheep(u, "suffolk"))
                    /\ s.new_sheep_awarded = Some(Len(db'.sheep))]_vars

\* the first night of an account, from 22:00 for nine hours, completed
\* with 382 wool and a suffolk
C15_Witness ==
    /\ result.op = "complete" /\ result.exc = ""
    /\ LET s == db.sleep_sessions[result.session_id]
       IN  /\ s.duration_hours = Some(9 * 60)
           /\ HourOf(s.start_time) = 22
           /\ s.quality_score = Some(2 * 85)
           /\ s.reward_wool = 382
           /\ s.new_sheep_awarded # None
           /\ db.sheep[Get(s.new_sheep_awarded)].sheep_type_id = "suffolk"
    /\ \A i \in DOMAIN db.sleep_sessions :
          i # result.session_id => db.sleep_sessions[i].user_id # result.user_id

\* the sheep type of the claim for a quality in half points
TierOf(quality_score) ==
    IF quality_score >= 2 * 95 THEN "golden"
    ELSE IF quality_score >= 2 * 90 THEN "cotswold"
    ELSE "suffolk"

\* C16: whatever the roll, completing a session creates a sheep only when
\* the quality_score is 85 or more; the sheep is golden from 95, cotswold
\* from 90 to under 95, suffolk from 85 to under 90, and never a merino.
C16_SheepTiers ==
    [][result'.op = "complete" =>
        /\ DOMAIN db.sheep \subseteq DOMAIN db'.sheep
        /\ \A k \in DOMAIN db'.sheep \ DOMAIN db.sheep :
              LET s == db'.sleep_sessions[result'.session_id]
              IN  /\ s.quality_score # None
                  /\ Get(s.quality_score) >= 2 * HighQuality
                  /\ db'.sheep[k].sheep_type_id = TierOf(Get(s.quality_score))
                  /\ db'.sheep[k].sheep_type_id # "merino"
                  /\ db'.sheep[k].user_id = result'.user_id]_vars

\* a night of quality 92.5 was completed with a cotswold
C16_Witness ==
    /\ result.op = "complete" /\ result.exc = ""
    /\ LET s == db.sleep_sessions[result.session_id]
       IN  /\ s.quality_score = Some(185)
           /\ s.new_sheep_awarded # None
           /\ db.sheep[Get(s.new_sheep_awarded)].sheep_type_id = "cotswold"

\* C12: the quality score is from 0 to 100 for every duration from 0 to 100
\* hours, every hour of the start and every history, and no component is
\* negative or above its cap: 40 for the duration, 30 for the timing, 30
\* for the consistency (15 half points a quarter of the ratio).
C12_QualityInRange ==
    result.op = "score" =>
        LET scores == Get(result.ret)
        IN  /\ 0 <= scores.quality_score /\ scores.quality_score <= 2 * 100
            /\ 0 <= scores.duration_score /\ scores.duration_score <= 40
            /\ 0 <= scores.timing_score /\ scores.timing_score <= 30
            /\ 0 <= 15 * scores.consistency_score
            /\ 15 * scores.consistency_score <= 2 * 30
            /\ scores.quality_score =
                   Min(2 * scores.duration_score + 2 * scores.timing_score
                           + 15 * scores.consistency_score, 2 * 100)

\* the score of one hundred hours from 23:00 after consistent nights
C12_Witness ==
    /\ result.op = "score"
    /\ Get(result.ret).duration = 100 * 60
    /\ HourOf(result.time) = 23
    /\ Get(result.ret).consistency_score = 4
    /\ Get(result.ret).quality_score = 2 * 85

\* C14: the wool of a session is floor(floor(duration_hours * 50) *
\* (quality_score / 100)) for every duration from 1 to 16 hours and every
\* quality score from 50 to 100 the scorer gives.
C14_RewardFormula ==
    result.op = "reward" =>
        LET r == Get(result.ret)
        IN  r.wool = (((r.duration * WoolPerHour) \div 60) * r.quality_score)
                         \div (2 * 100)

\* the sheep of an account that are its favorites
Favorites(d, u) ==
    {k \in DOMAIN d.sheep : d.sheep[k].user_id = u /\ d.sheep[k].is_favorite}

\* the sheep the request names is a sheep of the account that asks
OwnedSheep(sheep_id, u) ==
    sheep_id \in DOMAIN db.sheep /\ db.sheep[sheep_id].user_id = u

\* C17: after a successful SetFavorite of sheep B, B is the favorite and no
\* other sheep of the account is, a former favorite A included, and the
\* sheep of the other accounts are as before; so after any sequence of
\* SetFavorite and Mint run one after the other every account has at most
\* one favorite.
C17_OneFavorite ==
    [][/\ (result'.op = "set_favorite" /\ result'.exc = "") =>
            /\ Favorites(db', result'.user_id) = {result'.sheep_id}
            /\ \A k \in DOMAIN db.sheep :
                  db.sheep[k].user_id # result'.user_id
                      => db'.sheep[k] = db.sheep[k]
       /\ \A u \in Users : Cardinality(Favorites(db', u)) <= 1]_vars

\* a SetFavorite made its sheep the one favorite of an account of three
\* sheep, after three requests
C17_Witness ==
    /\ result.op = "set_favorite" /\ result.exc = ""
    /\ Favorites(db, result.user_id) = {result.sheep_id}
    /\ Cardinality({k \in DOMAIN db.sheep :
                        db.sheep[k].user_id = result.user_id}) >= 3
    /\ served >= 4

\* C18: however the SetFavorite calls on an account interleave (each the
\* query of the sheep, the clearing of the other sheep, the setting of the
\* sheep and the commit, in a transaction of its own), the account never
\* has more than one favorite sheep.
C18_OneFavoriteInterleaved ==
    \A u \in Users : Cardinality(Favorites(db, u)) <= 1

\* two SetFavorite calls on two sheep of one account are both past their
\* query, and one of them has cleared the other sheep
C18_Witness ==
    /\ req[1].pc = "sheep_commit" /\ req[2].pc = "sheep_clear"
    /\ req[1].op = "set_favorite" /\ req[2].op = "set_favorite"
    /\ req[1].user_id = req[2].user_id
    /\ req[1].sheep_id # req[2].sheep_id

\* C19: SetFavorite fails as not found (ValueError "Sheep not found", the
\* response 404) when the sheep does not exist or is the sheep of another
\* account, and then changes no sheep of either account.
C19_SetFavoriteNotFound ==
    [][(/\ result'.op \in {"set_favorite", "unset_favorite", "update_sheep"}
        /\ ~OwnedSheep(result'.sheep_id, result'.user_id))
       => (/\ result'.exc = "HTTPException"
           /\ result'.msg = "Sheep not found"
           /\ db' = db)]_vars

\* a SetFavorite on the favorite sheep of another account was refused
C19_Witness ==
    /\ result.op = "set_favorite" /\ result.msg = "Sheep not found"
    /\ result.sheep_id \in DOMAIN db.sheep
    /\ db.sheep[result.sheep_id].user_id # result.user_id
    /\ db.sheep[result.sheep_id].is_favorite

\* the ledger entries of an account, in the order they were written
EntriesOf(u) == SelectSeq(db.wool_transactions, LAMBDA e : e.user_id = u)

\* C20: the ledger entries of an account chain: the balance_after of the
\* first is its amount, the balance_after of each other one is the
\* balance_after of the one before plus its amount, the last balance_after
\* is the balance of the account, and no balance_after is negative; also
\* when credits and debits on the account interleave.
C20_LedgerChain ==
    \A u \in Users :
        LET entries == EntriesOf(u)
        IN  /\ \A i \in DOMAIN entries :
                  /\ entries[i].balance_after >= 0
                  /\ entries[i].balance_after =
                         (IF i = 1 THEN 0 ELSE entries[i - 1].balance_after)
                             + entries[i].amount
            /\ entries # <<>> =>
                  entries[Len(entries)].balance_after = db.wool_balance[u]
            /\ entries = <<>> => db.wool_balance[u] = 0

\* C21: Credit on an existing account never fails: it appends exactly one
\* ledger entry with the amount and the source it was given and with
\* balance_after = old balance + amount, sets the balance to that value and
\* returns it, and touches nothing else; on an absent account it fails, the
\* user was not found, and the database stays as it was.
C21_Credit ==
    [][result'.op = "credit" /\ served' # served =>
        LET u == result'.user_id
            amount == result'.amount
        IN  IF u \in Users
            THEN LET balance_after == db.wool_balance[u] + amount
                 IN  /\ result'.exc = ""
                     /\ result'.ret = Some(balance_after)
                     /\ db'.wool_transactions =
                            Append(db.wool_transactions,
                                   [user_id |-> u, amount |-> amount,
                                    balance_after |-> balance_after,
                                    source |-> result'.source])
                     /\ db'.wool_balance =
                            [db.wool_balance EXCEPT ![u] = balance_after]
                     /\ db'.sleep_sessions = db.sleep_sessions
                     /\ db'.sheep = db.sheep
            ELSE /\ result'.exc = "ValueError"
                 /\ result'.msg = "User not found"
                 /\ db' = db]_vars

\* a credit of 7 on a balance of 1: the entry and the return say 8
C21_Witness ==
    /\ result.op = "credit"
    /\ result.exc = ""
    /\ result.amount = 7
    /\ result.ret = Some(8)
    /\ db.wool_balance[result.user_id] = 8
    /\ Len(db.wool_transactions) = 2
    /\ db.wool_transactions[2].balance_after = 8

IsPrefix(s, t) == Len(s) <= Len(t) /\ SubSeq(t, 1, Len(s)) = s

\* C22: the ledger is append-only: a step of the system leaves every entry
\* that was there as it was and where it was, so the ledger of each account
\* only grows at its end; a collection or a purchase that succeeds appends
\* exactly one entry, one that fails appends none; a completion appends one
\* entry when it rewards wool and none otherwise; a start appends none.
C22_AppendOnly ==
    [][/\ IsPrefix(db.wool_transactions, db'.wool_transactions)
       /\ served' # served =>
            LET appended == Len(db'.wool_transactions) - Len(db.wool_transactions)
            IN  CASE result'.op \in {"collect", "purchase"} ->
                        appended = IF result'.exc = "" THEN 1 ELSE 0
                  [] result'.op = "complete" ->
                        appended = IF /\ result'.exc = ""
                                      /\ db'.sleep_sessions[result'.session_id].reward_wool > 0
                                   THEN 1 ELSE 0
                  [] OTHER -> appended = 0]_vars

\* a purchase that succeeded after a collection: both entries are there
C22_Witness ==
    /\ result.op = "purchase"
    /\ result.exc = ""
    /\ Len(db.wool_transactions) >= 2
    /\ db.wool_transactions[1].amount > 0
    /\ db.wool_transactions[Len(db.wool_transactions)].amount < 0

\* C23: the duration component of the score is 40 for 8 to 10 hours, both
\* ends included, 30 from 7 to below 8 hours, 20 from 6 to below 7 hours,
\* 25 above 10 hours and 10 below 6 hours, for every duration scored.
C23_DurationComponent ==
    result.op = "score" =>
        LET d == Get(result.ret).duration
            points == Get(result.ret).duration_score
        IN  /\ d < 6 * 60 => points = 10
            /\ 6 * 60 <= d /\ d < 7 * 60 => points = 20
            /\ 7 * 60 <= d /\ d < 8 * 60 => points = 30
            /\ 8 * 60 <= d /\ d <= 10 * 60 => points = 40
            /\ d > 10 * 60 => points = 25

\* the score of exactly ten hours: the best band
C23_Witness ==
    /\ result.op = "score"
    /\ Get(result.ret).duration = 10 * 60
    /\ Get(result.ret).duration_score = 40

\* C24: the timing component of the score, by the hour of the day h of
\* start_time: 30 for 21, 22 and 23; 25 for 20 and 0; 15 for 1, 2 and 3; 10
\* for every hour from 4 to 19.
C24_TimingComponent ==
    result.op = "score" =>
        LET h == HourOf(result.time)
            points == Get(result.ret).timing_score
        IN  /\ h \in 0..23
            /\ h \in {21, 22, 23} => points = 30
            /\ h \in {20, 0} => points = 25
            /\ h \in {1, 2, 3} => points = 15
            /\ h \in 4..19 => points = 10

\* the score of a session started in the hour after midnight
C24_Witness ==
    /\ result.op = "score"
    /\ HourOf(result.time) = 0
    /\ Get(result.ret).timing_score = 25

\* minutes after midnight of a session's start
MinuteOfDay(s) == s.start_time % 1440

RECURSIVE SumMinutes(_, _, _)
\* the sum over the sessions H of the minute of day to the power p (1 or 2)
SumMinutes(rows, H, p) ==
    IF H = {} THEN 0
    ELSE LET k == CHOOSE k \in H : TRUE
             m == MinuteOfDay(rows[k])
         IN  (IF p = 1 THEN m ELSE m * m) + SumMinutes(rows, H \ {k}, p)

\* the sample standard deviation s of the start hour of day of the sessions
\* H is below limit_halves half hours, in exact arithmetic:
\* s^2 = sum((h - mean)^2) / (n - 1) with h = m / 60
DeviationBelow(rows, H, limit_halves) ==
    LET n == Cardinality(H)
        sum == SumMinutes(rows, H, 1)
    IN  4 * (n * SumMinutes(rows, H, 2) - sum * sum)
            < limit_halves * limit_halves * 3600 * n * (n - 1)

\* the consistency ratio the thresholds give for the history H, in quarters
ThresholdRatio(rows, H) ==
    IF DeviationBelow(rows, H, 1) THEN 4
    ELSE IF DeviationBelow(rows, H, 2) THEN 3
    ELSE IF DeviationBelow(rows, H, 4) THEN 2
    ELSE 1

\* the consistency history of a user when the session sid is scored: the
\* user's other sessions that are completed and started in the trailing
\* seven days, the start of the window included
ConsistencyHistory(d, user_id, sid) ==
    {k \in DOMAIN d.sleep_sessions \ {sid} :
        /\ d.sleep_sessions[k].user_id = user_id
        /\ d.sleep_sessions[k].status = "completed"
        /\ d.sleep_sessions[k].start_time >= now - 7 * 1440}

\* C25: a session that is scored gets the consistency ratio of exactly that
\* history: 0.5 (15 points) when the history has fewer than 3 sessions, and
\* the ratio of the standard deviation of their start hours otherwise.
\* Active sessions, the session itself, sessions started before the window
\* and those of other accounts do not count; one started exactly seven
\* days ago does.
C25_ConsistencyHistory ==
    [][/\ result'.op = "complete"
       /\ result'.exc = ""
       /\ db'.sleep_sessions[result'.session_id].quality_score # None
       => LET sid == result'.session_id
              session == db'.sleep_sessions[sid]
              H == ConsistencyHistory(db, session.user_id, sid)
              ratio == IF Cardinality(H) < 3 THEN 2
                       ELSE ThresholdRatio(db.sleep_sessions, H)
          IN  Get(session.quality_score) =
                  2 * DurationScore(Get(session.duration_hours))
                  + 2 * TimingScore(HourOf(session.start_time))
                  + 15 * ratio]_vars

\* a session scored 40 + 30 + 0.25 * 30 = 77.5: its history is the two
\* nights at 22:00 and, as the third, the night started exactly seven days
\* ago at 08:00; a minute earlier and there are two
C25_Witness ==
    /\ result.op = "complete"
    /\ result.exc = ""
    /\ db.sleep_sessions[result.session_id].quality_score = Some(155)
    /\ Cardinality(ConsistencyHistory(db, HistoryUser, result.session_id)) = 3
    /\ \E k \in ConsistencyHistory(db, HistoryUser, result.session_id) :
          db.sleep_sessions[k].start_time = now - 7 * 1440

\* C26: with 3 or more sessions in the consistency history the ratio is
\* 1.0 when the sample standard deviation s of their start hours is below
\* 0.5, 0.75 when 0.5 <= s < 1.0, 0.5 when 1.0 <= s < 2.0 and 0.25 when
\* s >= 2.0; the consistency points are ratio * 30 (15 half points a
\* quarter); the start hours 22.0, 22.1 and 21.9 give the ratio 1.0.
C26_StdevThresholds ==
    result.op = "score" =>
        LET H == ConsistencyHistory(db, HistoryUser, 0)
            scores == Get(result.ret)
        IN  Cardinality(H) >= 3 =>
                /\ scores.consistency_score = ThresholdRatio(db.sleep_sessions, H)
                /\ scores.quality_score =
                       2 * scores.duration_score + 2 * scores.timing_score
                       + 15 * scores.consistency_score
                /\ {MinuteOfDay(db.sleep_sessions[k]) : k \in H}
                       = {21 * 60 + 54, 22 * 60, 22 * 60 + 6}
                   => scores.consistency_score = 4

\* C27: a Complete that succeeds leaves new_sheep_awarded on its session
\* exactly when it created a sheep, and then it is the id of that one
\* sheep, a sheep of the session's account; a session completed too short
\* or with a quality below 85 keeps it null, and so does one whose roll was
\* lost, since no sheep was created.  No other session's new_sheep_awarded
\* changes, and a Complete that fails creates no sheep.
C27_AwardRecorded ==
    [][result'.op = "complete" =>
        LET sid == result'.session_id
            minted == DOMAIN db'.sheep \ DOMAIN db.sheep
        IN  /\ \A i \in DOMAIN db.sleep_sessions :
                  i # sid \/ result'.exc # "" =>
                      db'.sleep_sessions[i].new_sheep_awarded
                          = db.sleep_sessions[i].new_sheep_awarded
            /\ result'.exc # "" => minted = {}
            /\ result'.exc = "" =>
                  LET s == db'.sleep_sessions[sid]
                  IN  /\ db.sleep_sessions[sid].new_sheep_awarded = None
                      /\ s.new_sheep_awarded # None <=> minted # {}
                      /\ minted # {} =>
                            /\ minted = {Get(s.new_sheep_awarded)}
                            /\ db'.sheep[Get(s.new_sheep_awarded)].user_id = s.user_id
                      /\ (\/ s.quality_score = None
                          \/ Get(s.quality_score) < 2 * HighQuality)
                            => s.new_sheep_awarded = None]_vars

\* a night of quality 85 or more completed with a sheep: the third sheep of
\* the table, recorded on the session
C27_Witness ==
    /\ result.op = "complete" /\ result.exc = ""
    /\ Len(db.sheep) = 3
    /\ db.sheep[3].user_id = result.user_id
    /\ db.sleep_sessions[result.session_id].new_sheep_awarded = Some(3)

\* the completed sessions of an account that started in the trailing seven
\* days
WeekSessions(u) ==
    {k \in DOMAIN db.sleep_sessions :
        /\ db.sleep_sessions[k].user_id = u
        /\ db.sleep_sessions[k].status = "completed"
        /\ db.sleep_sessions[k].start_time >= now - 7 * 1440}

RECURSIVE WeekSum(_, _)
\* the sum over the sessions H of a column: the minutes slept, the quality
\* in half points (0 for a session with none) or the wool
WeekSum(H, column) ==
    IF H = {} THEN 0
    ELSE LET k == CHOOSE k \in H : TRUE
             s == db.sleep_sessions[k]
         IN  (CASE column = "duration_hours" -> Get(s.duration_hours)
                [] column = "quality_score" ->
                       IF s.quality_score = None THEN 0 ELSE Get(s.quality_score)
                [] column = "reward_wool" -> s.reward_wool)
             + WeekSum(H \ {k}, column)

\* C28: the weekly statistics of an account are those of exactly its
\* completed sessions of the trailing seven days: their count, the sum of
\* their duration_hours, the sum of their reward_wool and the mean of their
\* quality scores (hours and mean to two decimals); all zero when there is
\* no such session.
C28_WeeklyStats ==
    result.op = "stats" =>
        LET H == WeekSessions(result.user_id)
            n == Cardinality(H)
        IN  /\ result.exc = ""
            /\ Get(result.ret).total_sessions = n
            /\ Get(result.ret).total_hours =
                   RoundHundredths(WeekSum(H, "duration_hours"), 60)
            /\ Get(result.ret).total_wool_earned = WeekSum(H, "reward_wool")
            /\ Get(result.ret).average_quality =
                   IF n = 0 THEN 0
                   ELSE RoundHundredths(WeekSum(H, "quality_score"), 2 * n)

\* C29: creating a sheep adds exactly one sheep, under an id no sheep had,
\* to the account it is created for: of the type that was given, at level
\* 1 with experience 0, wool_rate_modifier 1.0 and is_favorite false; the
\* sheep that were there, the balances, the ledger and the sessions stay
\* as they were.
C29_Mint ==
    [][result'.op = "create_sheep" =>
        LET sheep_id == result'.sheep_id
        IN  /\ result'.exc = ""
            /\ sheep_id \notin DOMAIN db.sheep
            /\ DOMAIN db'.sheep = DOMAIN db.sheep \cup {sheep_id}
            /\ \A k \in DOMAIN db.sheep : db'.sheep[k] = db.sheep[k]
            /\ db'.sheep[sheep_id] =
                   [user_id |-> result'.user_id,
                    sheep_type_id |-> db'.sheep[sheep_id].sheep_type_id,
                    level |-> 1, experience |-> 0, wool_rate_modifier |-> 1,
                    is_favorite |-> FALSE]
            /\ db'.sheep[sheep_id].sheep_type_id \in CreateTypes
            /\ result'.ret = Some(db'.sheep[sheep_id])
            /\ db'.wool_balance = db.wool_balance
            /\ db'.wool_transactions = db.wool_transactions
            /\ db'.sleep_sessions = db.sleep_sessions]_vars

\* a merino created for an account whose starter is its favorite
C29_Witness ==
    /\ result.op = "create_sheep"
    /\ db.sheep[result.sheep_id].sheep_type_id = "merino"
    /\ \E k \in DOMAIN db.sheep :
          /\ k # result.sheep_id
          /\ db.sheep[k].user_id = result.user_id
          /\ db.sheep[k].is_favorite

\* the base rate of a tier
TierBaseRate(tier) ==
    CASE tier = "starter" -> 5
      [] tier = "merino" -> 10
      [] tier = "suffolk" -> 15
      [] tier = "cotswold" -> 20
      [] tier = "golden" -> 50

RECURSIVE RateOver(_)
\* the sum over the sheep H of (base rate + (level - 1) * 2) * modifier
RateOver(H) ==
    IF H = {} THEN 0
    ELSE LET k == CHOOSE k \in H : TRUE
             sh == db.sheep[k]
         IN  (TierBaseRate(sh.sheep_type_id) + (sh.level - 1) * 2)
                 * sh.wool_rate_modifier
             + RateOver(H \ {k})

\* C30: the generation rate of an account is the sum over exactly its own
\* sheep of (base rate of the tier + (level - 1) * 2) * modifier, with the
\* base rates 5, 10, 15, 20 and 50; it is 0 with no sheep; computing it
\* writes nothing: it is derived at each call.
C30_GenerationRate ==
    [][result'.op = "rate" =>
        LET H == {k \in DOMAIN db.sheep : db.sheep[k].user_id = result'.user_id}
        IN  /\ result'.exc = ""
            /\ result'.ret = Some(RateOver(H))
            /\ H = {} => result'.ret = Some(0)
            /\ db' = db]_vars

\* the rate of an account with a starter, a cotswold and a golden sheep
C30_Witness ==
    /\ result.op = "rate"
    /\ result.ret = Some(5 + 20 + 50)
    /\ Cardinality({k \in DOMAIN db.sheep : db.sheep[k].user_id = result.user_id}) = 3

\* C31: the reward of a session is credited at most once.  Under every
\* interleaving an account has no more sleep_reward entries than sessions,
\* no more sheep beside its starter than sessions, and, when no request is
\* running, its sleep_reward credits do not exceed the reward_wool of its
\* completed sessions.
C31_RewardOnce ==
    \A u \in Users :
        LET sessions == {i \in DOMAIN db.sleep_sessions :
                            db.sleep_sessions[i].user_id = u}
            credits == {i \in DOMAIN db.wool_transactions :
                           /\ db.wool_transactions[i].user_id = u
                           /\ db.wool_transactions[i].source = "sleep_reward"}
            awarded == {k \in DOMAIN db.sheep :
                           /\ db.sheep[k].user_id = u
                           /\ db.sheep[k].sheep_type_id # "starter"}
        IN  /\ Cardinality(credits) <= Cardinality(sessions)
            /\ Cardinality(awarded) <= Cardinality(sessions)
            /\ Quiescent
                  => SumLedger(db.wool_transactions, u, "sleep_reward", 1)
                         <= SumRewards(db.sleep_sessions, u, 1)

\* the rows of the accounts other than u, table by table
OtherRows(d, u) ==
    [sleep_sessions |-> {<<i, d.sleep_sessions[i]>> : i \in
                            {i \in DOMAIN d.sleep_sessions : d.sleep_sessions[i].user_id # u}},
     wool_balance |-> [v \in Users \ {u} |-> d.wool_balance[v]],
     wool_transactions |-> {<<i, d.wool_transactions[i]>> : i \in
                            {i \in DOMAIN d.wool_transactions :
                                d.wool_transactions[i].user_id # u}},
     sheep |-> {<<k, d.sheep[k]>> : k \in
                            {k \in DOMAIN d.sheep : d.sheep[k].user_id # u}}]

\* the database with the state of every account but u wiped: the rows of
\* the others are there, each with the values of a new row, and their
\* balances are 0
Wiped(d, u) ==
    [sleep_sessions |->
        [i \in DOMAIN d.sleep_sessions |->
            IF d.sleep_sessions[i].user_id = u THEN d.sleep_sessions[i]
            ELSE SleepSession(d.sleep_sessions[i].user_id, 0)],
     wool_balance |-> [v \in Users |-> IF v = u THEN d.wool_balance[v] ELSE 0],
     wool_transactions |->
        [i \in DOMAIN d.wool_transactions |->
            IF d.wool_transactions[i].user_id = u THEN d.wool_transactions[i]
            ELSE WoolTransaction(d.wool_transactions[i].user_id, 0, 0, "")],
     sheep |->
        [k \in DOMAIN d.sheep |->
            IF d.sheep[k].user_id = u THEN d.sheep[k]
            ELSE Sheep(d.sheep[k].user_id, "starter")]]

\* the outcomes of the operation a result reports, run on the database d
\* (one for each roll of a Complete)
Replayed(d, r, created) ==
    CASE r.op = "start" -> {start_session(d, r.user_id, r.time)}
      [] r.op = "complete" ->
             {complete_session(d, r.session_id, r.user_id, r.time, roll, now) :
                 roll \in BOOLEAN}
      [] r.op = "credit" -> {add_wool(d, r.user_id, r.amount, r.source)}
      [] r.op = "debit" -> {spend_wool(d, r.user_id, r.amount, r.source)}
      [] r.op = "create_sheep" ->
             {Ok(create_sheep(d, r.user_id, created), Some(Sheep(r.user_id, created)))}
      [] r.op = "set_favorite" ->
             {update_sheep_route(d, r.sheep_id, r.user_id, Some(TRUE))}

\* C32: an operation invoked for an account leaves the balance, the ledger
\* entries, the sessions and the sheep of every other account as they
\* were, and what it does does not depend on them: its outcome and the
\* state it leaves to its own account are those of the same operation on
\* the database where the state of the others is wiped.
C32_Isolation ==
    [][served' # served =>
        LET u == result'.user_id
            created == IF result'.op = "create_sheep"
                       THEN db'.sheep[result'.sheep_id].sheep_type_id ELSE ""
        IN  /\ OtherRows(db', u) = OtherRows(db, u)
            /\ \E out \in Replayed(Wiped(db, u), result', created) :
                  /\ out.exc = result'.exc
                  /\ out.msg = result'.msg
                  /\ out.ret = result'.ret
                  /\ out.db = Wiped(db', u)]_vars

\* an account made a sheep its favorite and the favorite of the other
\* account, which has a balance, is still one
C32_Witness ==
    /\ result.op = "set_favorite"
    /\ result.exc = ""
    /\ \E k \in DOMAIN db.sheep :
          /\ db.sheep[k].user_id # result.user_id
          /\ db.sheep[k].is_favorite
          /\ db.wool_balance[db.sheep[k].user_id] > 0

\* C33: an account is never blocked from starting a session.  A Complete of
\* the account's active session, with its id and an end_time not before
\* its start, succeeds whatever the duration, the score and the roll; it
\* leaves the account with no active session, so that a Start succeeds
\* next.  Start and Complete alternate: a Start succeeds only for an
\* account with no active session and leaves it exactly one, a Complete
\* succeeds only on that one and leaves none.
C33_NeverBlocked ==
    [][/\ CompletesActive(0) =>
            /\ result'.exc = ""
            /\ db'.sleep_sessions[result'.session_id].status = "completed"
            /\ ActiveSessions(db', result'.user_id) = {}
            /\ \A t \in StartTimes :
                  start_session(db', result'.user_id, t).exc = ""
       /\ result'.op = "start" /\ result'.exc = "" =>
            /\ ActiveSessions(db, result'.user_id) = {}
            /\ ActiveSessions(db', result'.user_id) = {Get(result'.ret)}
       /\ result'.op = "complete" /\ result'.exc = "" =>
            /\ ActiveSessions(db, result'.user_id) = {result'.session_id}
            /\ ActiveSessions(db', result'.user_id) = {}]_vars

\* an account started its second session after a first one that was too
\* short was completed
C33_Witness ==
    /\ result.op = "start"
    /\ result.exc = ""
    /\ \E i \in DOMAIN db.sleep_sessions :
          /\ i < Get(result.ret)
          /\ db.sleep_sessions[i].user_id = result.user_id
          /\ db.sleep_sessions[i].status = "completed"
          /\ db.sleep_sessions[i].quality_score = None

\* C34: every ledger entry of a credit path (sleep_reward,
\* manual_collection) has an amount above 0 and every entry of the debit
\* path (shop_purchase) an amount below 0, whatever integer the caller
\* sends; a purchase never raises the balance.
C34_DeltaSigns ==
    [][/\ \A i \in DOMAIN db'.wool_transactions :
            LET entry == db'.wool_transactions[i]
            IN  /\ entry.source \in {"sleep_reward", "manual_collection"}
                      => entry.amount > 0
                /\ entry.source = "shop_purchase" => entry.amount < 0
       /\ result'.op = "purchase" /\ served' # served =>
            db'.wool_balance[result'.user_id] <= db.wool_balance[result'.user_id]]_vars

\* C35: the reward of a session is bounded.  Every completed session has a
\* reward_wool from 0 to 800 (16 hours * 50 at quality 100); a session of
\* an hour or more with a quality_score of 50 or more has a reward_wool of
\* at least 25; and a Complete raises the balance by the reward_wool of its
\* session, never by more than 800.
C35_RewardBounded ==
    [][result'.op = "complete" =>
        /\ \A i \in DOMAIN db'.sleep_sessions :
              LET s == db'.sleep_sessions[i]
              IN  s.status = "completed" =>
                      /\ 0 <= s.reward_wool /\ s.reward_wool <= 16 * 50
                      /\ (/\ s.quality_score # None
                          /\ Get(s.quality_score) >= 2 * 50
                          /\ Get(s.duration_hours) >= 60)
                            => s.reward_wool >= 25
        /\ \A u \in Users : db'.wool_balance[u] - db.wool_balance[u] <= 16 * 50
        /\ result'.exc = "" =>
              db'.wool_balance[result'.user_id] - db.wool_balance[result'.user_id]
                  = db'.sleep_sessions[result'.session_id].reward_wool]_vars

\* a session of exactly one hour and quality 50, rewarded 25
C35_Witness ==
    /\ result.op = "complete"
    /\ result.exc = ""
    /\ db.sleep_sessions[result.session_id].duration_hours = Some(60)
    /\ db.sleep_sessions[result.session_id].quality_score = Some(2 * 50)
    /\ db.sleep_sessions[result.session_id].reward_wool = 25

\* C36: the weekly statistics are returned, and nothing is raised, in every
\* state a Start and a Complete lead to, also for an account whose only
\* completed sessions of the last seven days are too short or have no
\* quality_score.
C36_StatsNeverRaise ==
    result.op = "stats" =>
        /\ result.exc = ""
        /\ result.ret # None

FishAudioErrors ==
    {"FishAudioError", "FishAudioRateLimitError", "FishAudioNoCreditsError"}

\* the requests of a call that were made with the method
Made(seen, method) == {i \in 1..Len(seen) : seen[i].method = method}

\* a request that was answered with the status
Answered(o, status) == o.kind = "response" /\ o.status = status

\* C37: generate_speech makes at most MAX_RETRIES = 3 attempts and ends with
\* a result or with a FishAudioError or a subclass of it; an attempt other
\* than the first follows a 429 response or a timed out request only, the
\* waits between the attempts are 1 s and then 2 s, after the third 429 it
\* raises FishAudioRateLimitError, and a 400, 401, 402, another error status
\* or a network error that is not a timeout ends the call at once with an
\* error.
C37_Retry ==
    result.op = "speech" =>
        LET seen == result.seen
            posts == Made(seen, "POST")
        IN  /\ Cardinality(posts) <= MAX_RETRIES
            /\ \/ result.exc = "" /\ result.ret # None
               \/ result.exc \in FishAudioErrors
            /\ \A i \in posts \ {1} :
                  \/ Answered(seen[i - 1], 429)
                  \/ seen[i - 1].kind = "Timeout"
            /\ result.slept = SubSeq(<<1000, 2000>>, 1, Cardinality(posts) - 1)
            /\ Cardinality({i \in posts : Answered(seen[i], 429)}) = MAX_RETRIES
                  => result.exc = "FishAudioRateLimitError"
            /\ \A i \in 1..Len(seen) :
                  \/ seen[i].kind = "ConnectionError"
                  \/ seen[i].method = "POST" /\ seen[i].kind = "response"
                        /\ seen[i].status \in {400, 401, 402, 500}
                  => i = Len(seen) /\ result.exc \in FishAudioErrors

\* C38: play_audio_from_url downloads the audio before it plays it: with
\* cache=True the URL is requested unless its cache file is there already;
\* with cache=False the URL is always requested, and no temporary file is
\* left when the call has returned or raised.
C38_Download ==
    [][result'.op = "play" /\ served' = served + 1 =>
          LET url == result'.url
              requested == db'.fetched = Append(db.fetched, url)
          IN  IF result'.cache
              THEN IF get_cache_path(url) \in DOMAIN db.files
                   THEN db'.fetched = db.fetched
                   ELSE requested
              ELSE /\ requested
                   /\ \A p \in DOMAIN db'.files : p.dir # "tmp"]_vars

====
